---------------------------- MODULE Spec2Model ----------------------------
(***************************************************************************)
(* A model of tumcsbot's Client (src/src/tumcsbot/client.py), the wrapper  *)
(* around zulip.Client used by the bot's plugins.                          *)
(*                                                                         *)
(* The client is single threaded.  Each public method is modelled as a     *)
(* small sequential program: a program counter, the method's locals, and   *)
(* a trace of what it did to the platform.  The platform's answers are     *)
(* nondeterministic.  Each component has a specification of its own:       *)
(*   SpecCallEndpoint   Client.call_endpoint                               *)
(*   SpecSubscribe      Client.subscribe_users and                         *)
(*                      Client.subscribe_all_from_stream_to_stream         *)
(*   SpecSend           Client.send_responses and Client.send_response     *)
(***************************************************************************)
EXTENDS Integers, Sequences, FiniteSets, TLC

VARIABLES
    ce_pc,        \* call_endpoint: "idle", "call", "sleep", "done", "raised"
    ce_args,      \* call_endpoint: (url, method, request, longpolling, files, timeout)
    ce_result,    \* call_endpoint: the local variable result
    ce_trace,     \* call_endpoint: the calls issued, responses received, sleeps
    ce_budget,    \* how many more rate-limit responses the platform may give
    pl_streams,   \* the platform's channels, in listing order: [name, invite_only]
    pl_calls,     \* the listing calls made to the platform, in order
    su_pc,        \* subscribe_users: "idle", "private_check", "chunk", "add", "done", "raised"
    su_caller,    \* subscribe_users: "user" or "subscribe_all"
    su_user_ids,              \* subscribe_users: the parameter user_ids
    su_stream_name,           \* subscribe_users: the parameter stream_name
    su_description,           \* subscribe_users: the parameter description
    su_allow_private_streams, \* subscribe_users: the parameter allow_private_streams
    su_range,                 \* subscribe_users: the next value of range(0, len(user_ids), chunk_size)
    su_i,                     \* subscribe_users: the loop variable i
    su_user_id_chunk,         \* subscribe_users: the local user_id_chunk
    su_chunk_pos,  \* the positions in user_ids of the elements of user_id_chunk
    su_success,    \* subscribe_users: the local success
    su_ret,        \* subscribe_users: the value returned (when su_pc = "done")
    su_log,        \* the add_subscriptions calls made, with their responses
    su_removed,    \* the positions in user_ids removed from their chunk
    su_budget,     \* how many more failures the platform may answer with
    sa_pc,         \* subscribe_all_from_stream_to_stream: "idle", "from_check",
                   \* "to_check", "get_subscribers", "subscribe", "done", "raised"
    sa_from_stream,  \* subscribe_all_from_stream_to_stream: the parameter from_stream
    sa_to_stream,    \* subscribe_all_from_stream_to_stream: the parameter to_stream
    sa_description,  \* subscribe_all_from_stream_to_stream: the parameter description
    sa_subs,         \* subscribe_all_from_stream_to_stream: the local subs
    sa_ret,          \* subscribe_all_from_stream_to_stream: the value returned
    sr_pc,         \* send_responses: "idle", "enter", "loop", "done"
    sr_responses,  \* send_responses: the argument of the outermost call
    sr_arg,        \* send_responses: the argument of the call being entered
    sr_stack,      \* send_responses: the for loops of the calls in progress,
                   \* outermost first: [responses, k] with k items dispatched
    pl_sent,       \* the send_message and add_reaction calls made, in order
    up_pc,         \* user_is_privileged: "idle", "fetch", "done"
    up_user_id,    \* user_is_privileged: the parameter user_id
    up_result,     \* user_is_privileged: the local result
    up_ret,        \* user_is_privileged: the value returned
    gp_pc,         \* get_public_stream_names: "idle", "db", "live", "done", "raised"
    gp_use_db,     \* get_public_stream_names: the parameter use_db
    gp_table,      \* the rows of the table PublicStreams
    gp_live,       \* the platform's public channels, in listing order
    gp_calls,      \* the table lookups and listing calls made, in order
    gp_ret,        \* get_public_stream_names: the list returned
    px_pc,         \* private_stream_exists: "idle", "list", "done", "raised"
    px_stream_name,  \* private_stream_exists: the parameter stream_name
    px_streams,    \* the platform's active channels, in listing order
    px_calls,      \* the listing calls made, in order
    px_result,     \* private_stream_exists: the local result
    px_ret,        \* private_stream_exists: the value returned
    gu_pc,         \* get_user_ids_from_attribute: "idle", "list", "done", "raised"
    gu_via,        \* the method the plugin called: "attribute" or "emails"
    gu_attribute,  \* get_user_ids_from_attribute: the parameter attribute
    gu_values,     \* get_user_ids_from_attribute: the parameter values
    gu_case_sensitive,  \* get_user_ids_from_attribute: the parameter case_sensitive
    gu_members,    \* the platform's users, in listing order
    gu_result,     \* get_user_ids_from_attribute: the local result
    gu_ret,        \* get_user_ids_from_attribute: the value returned
    pa_pc,         \* a command parser in use: "idle", "done"
    pa_schemas,    \* CommandParser: the subcommand schemas, in registration order
    pa_text,       \* CommandParser.parse: the command, as its words
    pa_result,     \* CommandParser.parse: the value returned
    cf_pc,         \* Conf.handle_message: "idle", "admin_check", "parse",
                   \* "execute", "done", "raised"
    cf_message,    \* Conf.handle_message: the parameter message
    cf_result,     \* Conf.handle_message: the local result
    cf_table,      \* the rows of the table Conf
    cf_before,     \* the rows of the table Conf when the message came in
    cf_response,   \* Conf.handle_message: the response returned
    cf_profile,    \* Conf.handle_message: what get_user_by_id answered
    rg_pc,         \* call_on_each_event: "idle", "loop"
    rg_event_types,  \* call_on_each_event: the parameter event_types
    rg_narrow,     \* call_on_each_event: the parameter narrow
    register_params,  \* Client.register_params
    rg_log,        \* the call_on_each_event and register calls made, in order
    aw_pc,         \* alert_word handle_message: "idle", "admin_check",
                   \* "get_alert_words", "db_read", "add_alert_words",
                   \* "remove_alert_words", "db_write", "done", "raised"
    aw_message,    \* alert_word handle_message: the parameter message
    aw_profile,    \* alert_word handle_message: what get_user_by_id answered
    aw_args,       \* alert_word handle_message: the local args (match.groups())
    aw_alert_phrases,  \* alert_word handle_message: the local alert_phrases
    aw_result_sql, \* alert_word handle_message: the local result_sql
    aw_calls,      \* the alert word calls made for the message, with their results
    aw_table,      \* the rows of the table Alerts, in insertion order
    aw_before,     \* the rows of the table Alerts when the message came in
    aw_response    \* alert_word handle_message: the response returned

ceVars == <<ce_pc, ce_args, ce_result, ce_trace, ce_budget>>

plVars == <<pl_streams, pl_calls>>

suVars == <<su_pc, su_caller, su_user_ids, su_stream_name, su_description,
            su_allow_private_streams, su_range, su_i, su_user_id_chunk,
            su_chunk_pos,
            su_success, su_ret, su_log, su_removed, su_budget>>

saVars == <<sa_pc, sa_from_stream, sa_to_stream, sa_description, sa_subs, sa_ret>>

srVars == <<sr_pc, sr_responses, sr_arg, sr_stack, pl_sent>>

upVars == <<up_pc, up_user_id, up_result, up_ret>>

\* The state of the lookup methods of the client.
gpVars == <<gp_pc, gp_use_db, gp_table, gp_live, gp_calls, gp_ret>>

pxVars == <<px_pc, px_stream_name, px_streams, px_calls, px_result, px_ret>>

guVars == <<gu_pc, gu_via, gu_attribute, gu_values, gu_case_sensitive, gu_members,
            gu_result, gu_ret>>

quVars == <<upVars, gpVars, pxVars, guVars>>

paVars == <<pa_pc, pa_schemas, pa_text, pa_result>>

cfVars == <<cf_pc, cf_message, cf_result, cf_table, cf_before, cf_response,
            cf_profile>>

\* The state of the plugins.
pgVars == <<paVars, cfVars>>

\* The state of the event queue registration.
rgVars == <<rg_pc, rg_event_types, rg_narrow, register_params, rg_log>>

\* The state of the command alert_word.
awVars == <<aw_pc, aw_message, aw_profile, aw_args, aw_alert_phrases,
            aw_result_sql, aw_calls, aw_table, aw_before, aw_response>>

vars == <<ceVars, plVars, suVars, saVars, srVars, quVars, pgVars, rgVars, awVars>>

(***************************************************************************)
(* Bounds of the model.                                                    *)
(***************************************************************************)
\* The platform answers at most this many times with RATE_LIMIT_HIT per call.
MaxRateLimits == 3
\* 'retry-after' values range over 0..MaxRetryAfter seconds.
MaxRetryAfter == 2
\* The longest list of user ids handed to subscribe_users.
MaxUsers == 250
\* The platform answers at most this many add_subscriptions calls of one
\* subscribe_users call with a failure.
MaxFailures == 2
\* The nested collections of responses have at most this many nodes
\* (responses, None values and collections), two examples apart.
MaxNodes == 5
\* The user listing has at most this many members.
MaxMembers == 2
\* At most this many call_on_each_event and register calls are followed.
MaxCalls == 3

(***************************************************************************)
(* Values.                                                                 *)
(***************************************************************************)
\* Python's None.
None == "None"

\* A response envelope is a function from field names to values; a field
\* that is absent is not in the function's domain.
HasField(result, f) == f \in DOMAIN result

(***************************************************************************)
(* The platform as seen by call_endpoint.                                  *)
(***************************************************************************)
\* Rate-limit responses: result='error', code='RATE_LIMIT_HIT', with or
\* without a 'retry-after' field.
RateLimitResponses ==
    { ("result" :> "error") @@ ("code" :> "RATE_LIMIT_HIT") }
    \cup { ("result" :> "error") @@ ("code" :> "RATE_LIMIT_HIT") @@ ("retry-after" :> r) :
             r \in 0..MaxRetryAfter }

\* Every other response: a success, an error with another code, an error
\* with no code field, a client-side error kind, and a success that happens
\* to carry the rate-limit code.
OtherResponses ==
    { ("result" :> "success") @@ ("msg" :> ""),
      ("result" :> "error") @@ ("code" :> "BAD_REQUEST") @@ ("msg" :> "bad"),
      ("result" :> "error") @@ ("msg" :> "no code"),
      ("result" :> "connection-error") @@ ("msg" :> "unreachable"),
      ("result" :> "success") @@ ("code" :> "RATE_LIMIT_HIT") }

\* The argument tuples call_endpoint is called with: the defaults of its
\* signature, and a GET request with every argument given.
DefaultArgs ==
    [url |-> None, method |-> "POST", request |-> None,
     longpolling |-> FALSE, files |-> None, timeout |-> None]

EndpointArgs ==
    { DefaultArgs,
      [url |-> "users/me", method |-> "GET", request |-> "req",
       longpolling |-> TRUE, files |-> "files", timeout |-> 5] }

\* What call_endpoint did, in order: the calls it issued, the responses it
\* received, and its sleeps.
CallEvent(args) == [ev |-> "call", args |-> args]
ResponseEvent(result) == [ev |-> "response", result |-> result]
SleepEvent(secs) == [ev |-> "sleep", secs |-> secs]

\* The local variable result before its first assignment.
NoResult == << >>

(***************************************************************************)
(* Client.call_endpoint                                                    *)
(***************************************************************************)
\* call_endpoint touches nothing of the other methods' state.
CEOnly == UNCHANGED <<plVars, suVars, saVars, srVars, quVars, pgVars, rgVars, awVars>>

\* Mutation of IsRateLimitHit: every error response is taken for a rate limit.
IsRateLimitHit_AnyError(result) ==
    result["result"] = "error"

\* The loop condition of call_endpoint.
IsRateLimitHit(result) ==
    /\ result["result"] = "error"
    /\ HasField(result, "code")
    /\ result["code"] = "RATE_LIMIT_HIT"

\* Mutation of RetrySecs: the 'retry-after' field is ignored.
RetrySecs_AlwaysDefault(result) ==
    1

\* secs: float = result['retry-after'] if 'retry-after' in result else 1
RetrySecs(result) ==
    IF HasField(result, "retry-after") THEN result["retry-after"] ELSE 1

\* The caller calls call_endpoint.
CEStart ==
    /\ ce_pc = "idle"
    /\ \E a \in EndpointArgs : ce_args' = a
    /\ ce_pc' = "call"
    /\ ce_result' = NoResult
    /\ ce_trace' = << >>
    /\ ce_budget' = MaxRateLimits
    /\ CEOnly

\* result = super().call_endpoint(...) and the test of the loop condition.
CECall ==
    /\ ce_pc = "call"
    /\ \E r \in RateLimitResponses \cup OtherResponses :
         /\ r \in RateLimitResponses => ce_budget > 0
         /\ ce_budget' = IF r \in RateLimitResponses THEN ce_budget - 1 ELSE ce_budget
         /\ ce_result' = r
         /\ ce_trace' = ce_trace \o << CallEvent(ce_args), ResponseEvent(r) >>
         /\ ce_pc' = IF IsRateLimitHit(r) THEN "sleep" ELSE "done"
    /\ UNCHANGED ce_args
    /\ CEOnly

\* super().call_endpoint(...) raises (the transport could not complete the
\* call): the exception leaves call_endpoint.
CECallRaises ==
    /\ ce_pc = "call"
    /\ ce_trace' = Append(ce_trace, CallEvent(ce_args))
    /\ ce_pc' = "raised"
    /\ UNCHANGED <<ce_args, ce_result, ce_budget>>
    /\ CEOnly

\* secs = ...; logging.warning(...); time.sleep(secs)
CESleep ==
    /\ ce_pc = "sleep"
    /\ ce_trace' = Append(ce_trace, SleepEvent(RetrySecs(ce_result)))
    /\ ce_pc' = "call"
    /\ UNCHANGED <<ce_args, ce_result, ce_budget>>
    /\ CEOnly

\* return result (or the exception reaches the caller); the caller goes on.
CEReturn ==
    /\ ce_pc \in {"done", "raised"}
    /\ ce_pc' = "idle"
    /\ ce_args' = DefaultArgs
    /\ ce_result' = NoResult
    /\ ce_trace' = << >>
    /\ ce_budget' = 0
    /\ CEOnly

CEInit ==
    /\ ce_pc = "idle"
    /\ ce_args = DefaultArgs
    /\ ce_result = NoResult
    /\ ce_trace = << >>
    /\ ce_budget = 0

CENext ==
    \/ CEStart
    \/ CECall
    \/ CECallRaises
    \/ CESleep
    \/ CEReturn

(***************************************************************************)
(* Channels, channel names and the channel listing.                        *)
(***************************************************************************)
\* A name is the sequence of its characters' codes.
Name_team == <<116, 101, 97, 109>>        \* "team"
Name_Team == <<84, 101, 97, 109>>         \* "Team"
Name_gen == <<103, 101, 110>>             \* "gen"
Name_GEN == <<71, 69, 78>>                \* "GEN"

\* str.casefold() on a name of ASCII letters.
casefold(name) ==
    [k \in DOMAIN name |-> IF name[k] \in 65..90 THEN name[k] + 32 ELSE name[k]]

\* lib.stream_names_equal: names are compared case-insensitively.
stream_names_equal(a, b) == casefold(a) = casefold(b)

Stream(name, invite_only) == [name |-> name, invite_only |-> invite_only]

\* The platform's channels when a method is called.  The channel "gen" is
\* absent, public, or private under the name "GEN"; "team" likewise.
PlatformStreams(fromStates, toStates) ==
    { f \o t :
        f \in { q \in { << >>, << Stream(Name_gen, FALSE) >>, << Stream(Name_GEN, TRUE) >> } :
                  Len(q) = 0 \/ q[1].invite_only \in fromStates },
        t \in { q \in { << >>, << Stream(Name_team, FALSE) >>, << Stream(Name_Team, TRUE) >> } :
                  Len(q) = 0 \/ q[1].invite_only \in toStates } }

\* The responses get_streams(include_all_active = True) can give.
GetStreamsResults ==
    { ("result" :> "success") @@ ("streams" :> pl_streams),
      ("result" :> "error") @@ ("code" :> "BAD_REQUEST") @@ ("msg" :> "not allowed") }

\* A listing call, as the platform saw it.
ListingCall(op, by, stream, result) ==
    [op |-> op, by |-> by, stream |-> stream, ok |-> (result["result"] = "success")]

\* Mutation of private_stream_exists: the names are compared with ==.
private_stream_exists_CaseSensitive(result, stream_name) ==
    IF result["result"] # "success" THEN FALSE
    ELSE LET streams == result["streams"]
             found == { k \in DOMAIN streams : streams[k].name = stream_name }
         IN  IF found = {} THEN FALSE
             ELSE streams[CHOOSE k \in found : \A l \in found : k <= l].invite_only

\* Mutation of private_stream_exists: the last channel of that name decides,
\* not the first.
private_stream_exists_LastMatch(result, stream_name) ==
    IF result["result"] # "success" THEN FALSE
    ELSE LET streams == result["streams"]
             found == { k \in DOMAIN streams :
                          stream_names_equal(streams[k].name, stream_name) }
         IN  IF found = {} THEN FALSE
             ELSE streams[CHOOSE k \in found : \A l \in found : k >= l].invite_only

\* Client.private_stream_exists, given the result of its get_streams call.
private_stream_exists(result, stream_name) ==
    IF result["result"] # "success" THEN FALSE
    ELSE LET streams == result["streams"]
             found == { k \in DOMAIN streams :
                          stream_names_equal(streams[k].name, stream_name) }
         IN  IF found = {} THEN FALSE
             ELSE streams[CHOOSE k \in found : \A l \in found : k <= l].invite_only

(***************************************************************************)
(* Client.subscribe_users                                                  *)
(***************************************************************************)
chunk_size == 100

Iota(n) == [k \in 1..n |-> k]

\* The lists of user ids: 1..n for n around the chunk size and up to
\* MaxUsers, and a short list that names one user twice.
UserIdLists ==
    { Iota(n) : n \in {0, 1, chunk_size, chunk_size + 1, MaxUsers} }
    \cup { <<7, 8, 7>> }

\* A user id that is in none of the lists.
StrangerId == MaxUsers + 1

Descriptions == { None, "desc" }

\* Python's s[a:b] for 0 <= a <= b.
Slice(s, a, b) ==
    SubSeq(s, a + 1, IF b < Len(s) THEN b ELSE Len(s))

\* Mutation of ChunkAt: the slice ends one element early.
ChunkAt_OneShort(user_ids, i) ==
    Slice(user_ids, i, i + chunk_size - 1)

\* user_id_chunk = user_ids[i:i + chunk_size]
ChunkAt(user_ids, i) ==
    Slice(user_ids, i, i + chunk_size)

\* Mutation of NextOffset: the step of the range is one too large.
NextOffset_StepTooLarge(i) ==
    i + chunk_size + 1

\* The next value of range(0, len(user_ids), chunk_size) after i.
NextOffset(i) ==
    i + chunk_size

\* The index list.remove(x) removes: that of the first element equal to x.
IndexOf(list, x) ==
    CHOOSE k \in DOMAIN list : list[k] = x /\ \A l \in 1..(k - 1) : list[l] # x

\* Mutation of RemoveAt: nothing is removed.
RemoveAt_Nothing(list, k) ==
    list

\* list with its k-th element removed.
RemoveAt(list, k) ==
    SubSeq(list, 1, k - 1) \o SubSeq(list, k + 1, Len(list))

\* Mutation of RemoveIndex: the element before the given one is removed.
RemoveIndex_OffByOne(list, x) ==
    IF IndexOf(list, x) > 1 THEN IndexOf(list, x) - 1 ELSE Len(list)

\* The index at which user_id_chunk.remove(x) removes.
RemoveIndex(list, x) ==
    IndexOf(list, x)

\* subscription = {'name': stream_name}, with the description if there is one.
Subscription(stream_name, description) ==
    IF description # None
    THEN ("name" :> stream_name) @@ ("description" :> description)
    ELSE ("name" :> stream_name)

\* The users the platform may name in an UNAUTHORIZED_PRINCIPAL response:
\* the first, the middle and the last of the principals, and a stranger.
NamedPrincipals(principals) ==
    { StrangerId } \cup
    ( IF principals = << >> THEN {}
      ELSE { principals[1], principals[(Len(principals) + 1) \div 2],
             principals[Len(principals)] } )

\* The responses add_subscriptions can give.
AddSubscriptionsFailures(principals) ==
    { ("result" :> "error") @@ ("code" :> "UNAUTHORIZED_PRINCIPAL") @@ ("principal" :> x) :
        x \in NamedPrincipals(principals) }
    \cup
    { ("result" :> "error") @@ ("code" :> "UNAUTHORIZED_PRINCIPAL") @@ ("msg" :> "no principal"),
      ("result" :> "error") @@ ("code" :> "BAD_REQUEST") @@ ("msg" :> "bad"),
      ("result" :> "error") @@ ("msg" :> "no code"),
      ("result" :> "connection-error") @@ ("msg" :> "unreachable") }

AddSubscriptionsSuccess == ("result" :> "success") @@ ("msg" :> "")

\* What the body of the while loop does with a result: "break" (success),
\* "continue" (a principal was removed), "fail" (success = False; break),
\* or the exception it raises.
AddOutcome(result, user_id_chunk) ==
    IF result["result"] = "success" THEN "break"
    ELSE IF ~HasField(result, "code") THEN "KeyError"
    ELSE IF result["code"] = "UNAUTHORIZED_PRINCIPAL" /\ HasField(result, "principal")
         THEN IF \E k \in DOMAIN user_id_chunk : user_id_chunk[k] = result["principal"]
              THEN "continue"
              ELSE "ValueError"
    ELSE "fail"

\* How many failures the platform may answer with in one subscribe_users
\* call.  A list shorter than a chunk gets as many as its while loop can
\* take, one per identity and one more; a longer list gets MaxFailures.
FailureBudget(user_ids) ==
    IF Len(user_ids) < chunk_size /\ Len(user_ids) + 1 > MaxFailures
    THEN Len(user_ids) + 1
    ELSE MaxFailures

\* The subscription methods touch nothing of the other methods' state.
SUOnly == UNCHANGED <<ceVars, srVars, quVars, pgVars, rgVars, awVars>>

\* The entry of subscribe_users: its parameters and its first lines.
SUEnter(caller, user_ids, stream_name, description, allow_private_streams) ==
    /\ su_caller' = caller
    /\ su_user_ids' = user_ids
    /\ su_stream_name' = stream_name
    /\ su_description' = description
    /\ su_allow_private_streams' = allow_private_streams
    /\ su_range' = 0
    /\ su_i' = 0
    /\ su_user_id_chunk' = << >>
    /\ su_chunk_pos' = << >>
    /\ su_success' = TRUE
    /\ su_ret' = FALSE
    /\ su_log' = << >>
    /\ su_removed' = {}
    /\ su_budget' = FailureBudget(user_ids)
    /\ su_pc' = IF ~allow_private_streams THEN "private_check" ELSE "chunk"

\* A plugin calls subscribe_users.
SUStart ==
    /\ su_pc = "idle"
    /\ sa_pc = "idle"
    /\ \E streams \in PlatformStreams({FALSE}, {FALSE, TRUE}) :
         pl_streams' = streams
    /\ pl_calls' = << >>
    /\ \E user_ids \in UserIdLists, description \in Descriptions,
          allow_private_streams \in BOOLEAN :
         SUEnter("user", user_ids, Name_team, description, allow_private_streams)
    /\ UNCHANGED saVars
    /\ SUOnly

\* if not allow_private_streams and self.private_stream_exists(stream_name):
\*     return False
SUPrivateCheck ==
    /\ su_pc = "private_check"
    /\ \E result \in GetStreamsResults :
         /\ pl_calls' = Append(pl_calls,
                ListingCall("get_streams", "subscribe_users", su_stream_name, result))
         /\ su_pc' = IF private_stream_exists(result, su_stream_name)
                     THEN "rejected" ELSE "chunk"
    /\ UNCHANGED <<pl_streams, su_caller, su_user_ids, su_stream_name, su_description,
                   su_allow_private_streams, su_range, su_i, su_user_id_chunk,
                   su_chunk_pos, su_success, su_ret, su_log, su_removed, su_budget>>
    /\ UNCHANGED saVars
    /\ SUOnly

\* The head of the for loop: the next chunk, or return success.
SUNextChunk ==
    /\ su_pc = "chunk"
    /\ IF su_range < Len(su_user_ids)
       THEN /\ su_i' = su_range
            /\ su_range' = NextOffset(su_range)
            /\ su_user_id_chunk' = ChunkAt(su_user_ids, su_range)
            /\ su_chunk_pos' = [k \in 1..Len(ChunkAt(su_user_ids, su_range)) |-> su_range + k]
            /\ su_pc' = "add"
            /\ UNCHANGED su_ret
       ELSE /\ su_pc' = "done"
            /\ su_ret' = su_success
            /\ UNCHANGED <<su_user_id_chunk, su_chunk_pos, su_range, su_i>>
    /\ UNCHANGED <<plVars, su_caller, su_user_ids, su_stream_name, su_description,
                   su_allow_private_streams, su_success, su_log, su_removed, su_budget>>
    /\ UNCHANGED saVars
    /\ SUOnly

\* One pass of the while loop: the add_subscriptions call and what follows.
SUAddSubscriptions ==
    /\ su_pc = "add"
    /\ \E result \in {AddSubscriptionsSuccess} \cup AddSubscriptionsFailures(su_user_id_chunk) :
         LET outcome == AddOutcome(result, su_user_id_chunk)
             k == RemoveIndex(su_user_id_chunk, result["principal"])
         IN  /\ result # AddSubscriptionsSuccess => su_budget > 0
             /\ su_budget' = IF result # AddSubscriptionsSuccess
                             THEN su_budget - 1 ELSE su_budget
             /\ su_log' = Append(su_log,
                    [i |-> su_i,
                     streams |-> << Subscription(su_stream_name, su_description) >>,
                     principals |-> su_user_id_chunk,
                     positions |-> su_chunk_pos,
                     result |-> result])
             /\ su_pc' = CASE outcome = "break" -> "chunk"
                           [] outcome = "continue" -> "add"
                           [] outcome = "fail" -> "chunk"
                           [] OTHER -> "raised"
             /\ su_success' = IF outcome = "fail" THEN FALSE ELSE su_success
             /\ su_user_id_chunk' = IF outcome = "continue"
                                    THEN RemoveAt(su_user_id_chunk, k)
                                    ELSE su_user_id_chunk
             /\ su_chunk_pos' = IF outcome = "continue"
                                THEN RemoveAt(su_chunk_pos, k)
                                ELSE su_chunk_pos
             /\ su_removed' = IF outcome = "continue"
                              THEN su_removed \cup { su_chunk_pos[k] }
                              ELSE su_removed
    /\ UNCHANGED <<plVars, su_caller, su_user_ids, su_stream_name, su_description,
                   su_allow_private_streams, su_range, su_i, su_ret>>
    /\ UNCHANGED saVars
    /\ SUOnly

\* subscribe_users has returned (or raised) to the plugin, which goes on.
SUReturn ==
    /\ su_pc \in {"rejected", "done", "raised"}
    /\ su_caller = "user"
    /\ su_pc' = "idle"
    /\ su_user_ids' = << >>
    /\ su_stream_name' = << >>
    /\ su_description' = None
    /\ su_allow_private_streams' = FALSE
    /\ su_range' = 0
    /\ su_i' = 0
    /\ su_user_id_chunk' = << >>
    /\ su_chunk_pos' = << >>
    /\ su_success' = TRUE
    /\ su_ret' = FALSE
    /\ su_log' = << >>
    /\ su_removed' = {}
    /\ su_budget' = 0
    /\ pl_streams' = << >>
    /\ pl_calls' = << >>
    /\ UNCHANGED su_caller
    /\ UNCHANGED saVars
    /\ SUOnly

(***************************************************************************)
(* Client.subscribe_all_from_stream_to_stream                              *)
(***************************************************************************)
\* The responses get_subscribers(stream = from_stream) can give.
GetSubscribersResults ==
    { ("result" :> "success") @@ ("subscribers" :> Iota(n)) :
        n \in {0, 1, chunk_size + 1} }
    \cup { ("result" :> "error") @@ ("code" :> "BAD_REQUEST") @@ ("msg" :> "no such stream") }

\* if (self.private_stream_exists(from_stream) or ...): return False
SAAfterFromCheck(is_private) ==
    IF is_private THEN "done" ELSE "to_check"

\* Mutation of SAAfterToCheck: a private to_stream is let through.
SAAfterToCheck_Ignored(is_private) ==
    "get_subscribers"

\* if (... or self.private_stream_exists(to_stream)): return False
SAAfterToCheck(is_private) ==
    IF is_private THEN "done" ELSE "get_subscribers"

\* A plugin calls subscribe_all_from_stream_to_stream.
SAStart ==
    /\ sa_pc = "idle"
    /\ su_pc = "idle"
    /\ \E streams \in PlatformStreams({FALSE, TRUE}, {FALSE, TRUE}) :
         pl_streams' = streams
    /\ pl_calls' = << >>
    /\ sa_from_stream' = Name_gen
    /\ sa_to_stream' = Name_team
    /\ \E description \in Descriptions : sa_description' = description
    /\ sa_subs' = NoResult
    /\ sa_ret' = FALSE
    /\ sa_pc' = "from_check"
    /\ UNCHANGED suVars
    /\ SUOnly

\* self.private_stream_exists(from_stream)
SAFromCheck ==
    /\ sa_pc = "from_check"
    /\ \E result \in GetStreamsResults :
         /\ pl_calls' = Append(pl_calls,
                ListingCall("get_streams", "subscribe_all", sa_from_stream, result))
         /\ sa_pc' = SAAfterFromCheck(private_stream_exists(result, sa_from_stream))
    /\ sa_ret' = FALSE
    /\ UNCHANGED <<pl_streams, sa_from_stream, sa_to_stream, sa_description, sa_subs>>
    /\ UNCHANGED suVars
    /\ SUOnly

\* self.private_stream_exists(to_stream)
SAToCheck ==
    /\ sa_pc = "to_check"
    /\ \E result \in GetStreamsResults :
         /\ pl_calls' = Append(pl_calls,
                ListingCall("get_streams", "subscribe_all", sa_to_stream, result))
         /\ sa_pc' = SAAfterToCheck(private_stream_exists(result, sa_to_stream))
    /\ sa_ret' = FALSE
    /\ UNCHANGED <<pl_streams, sa_from_stream, sa_to_stream, sa_description, sa_subs>>
    /\ UNCHANGED suVars
    /\ SUOnly

\* subs = self.get_subscribers(stream = from_stream); return False if it
\* failed, else call self.subscribe_users(subs['subscribers'], to_stream,
\* description).
SAGetSubscribers ==
    /\ sa_pc = "get_subscribers"
    /\ \E subs \in GetSubscribersResults :
         /\ pl_calls' = Append(pl_calls,
                ListingCall("get_subscribers", "subscribe_all", sa_from_stream, subs))
         /\ sa_subs' = subs
         /\ IF subs["result"] # "success"
            THEN /\ sa_pc' = "done"
                 /\ sa_ret' = FALSE
                 /\ UNCHANGED suVars
            ELSE /\ sa_pc' = "subscribe"
                 /\ UNCHANGED sa_ret
                 /\ SUEnter("subscribe_all", subs["subscribers"], sa_to_stream,
                            sa_description, FALSE)
    /\ UNCHANGED <<pl_streams, sa_from_stream, sa_to_stream, sa_description>>
    /\ SUOnly

\* return self.subscribe_users(...): its value is returned, its exception
\* propagates.
SASubscribeReturns ==
    /\ sa_pc = "subscribe"
    /\ su_caller = "subscribe_all"
    /\ su_pc \in {"rejected", "done", "raised"}
    /\ sa_pc' = IF su_pc = "raised" THEN "raised" ELSE "done"
    /\ sa_ret' = IF su_pc = "raised" THEN FALSE ELSE su_ret
    /\ UNCHANGED <<plVars, sa_from_stream, sa_to_stream, sa_description, sa_subs>>
    /\ UNCHANGED suVars
    /\ SUOnly

\* subscribe_all_from_stream_to_stream has returned (or raised) to the
\* plugin, which goes on.
SAReturn ==
    /\ sa_pc \in {"done", "raised"}
    /\ sa_pc' = "idle"
    /\ sa_from_stream' = << >>
    /\ sa_to_stream' = << >>
    /\ sa_description' = None
    /\ sa_subs' = NoResult
    /\ sa_ret' = FALSE
    /\ su_pc' = "idle"
    /\ su_caller' = "user"
    /\ su_user_ids' = << >>
    /\ su_stream_name' = << >>
    /\ su_description' = None
    /\ su_allow_private_streams' = FALSE
    /\ su_range' = 0
    /\ su_i' = 0
    /\ su_user_id_chunk' = << >>
    /\ su_chunk_pos' = << >>
    /\ su_success' = TRUE
    /\ su_ret' = FALSE
    /\ su_log' = << >>
    /\ su_removed' = {}
    /\ su_budget' = 0
    /\ pl_streams' = << >>
    /\ pl_calls' = << >>
    /\ SUOnly

(***************************************************************************)
(* Client.send_response and Client.send_responses                          *)
(***************************************************************************)
\* What send_responses is given: a Response, None, or an iterable of such.
Response(message_type, response) ==
    [kind |-> "Response", message_type |-> message_type, response |-> response]

NoneValue == [kind |-> "None"]

Iterable(items) == [kind |-> "Iterable", items |-> items]

M1 == Response("MESSAGE", "m1")
M2 == Response("MESSAGE", "m2")
R1 == Response("EMOJI", "r1")
X1 == Response("NONE", "x1")

\* The example [[m1], [], [r1, m2]].
ExampleResponses ==
    Iterable(<< Iterable(<< M1 >>), Iterable(<< >>), Iterable(<< R1, M2 >>) >>)

\* A deeper one: [m1, [[[r1], x1], None], m2].
DeepResponses ==
    Iterable(<< M1,
                Iterable(<< Iterable(<< Iterable(<< R1 >>), X1 >>), NoneValue >>),
                M2 >>)

RECURSIVE ResponsesOfSize(_), ItemsOfSize(_)
\* The sequences of arguments with n nodes in all.
ItemsOfSize(n) ==
    IF n = 0 THEN { << >> }
    ELSE UNION { { << t >> \o f : t \in ResponsesOfSize(k), f \in ItemsOfSize(n - k) } :
                   k \in 1..n }

\* The arguments with n nodes.
ResponsesOfSize(n) ==
    (IF n = 1 THEN { M1, R1, X1, NoneValue } ELSE {})
    \cup { Iterable(f) : f \in ItemsOfSize(n - 1) }

AllResponses ==
    UNION { ResponsesOfSize(n) : n \in 1..MaxNodes }
    \cup { ExampleResponses, DeepResponses }

\* A call made to the platform by send_response.
SendCall(op, request) == [op |-> op, request |-> request]

\* Mutation of send_response: a response of any other kind is sent as a
\* message.
send_response_OtherKindSent(response) ==
    IF response.message_type = "EMOJI"
    THEN << SendCall("add_reaction", response.response) >>
    ELSE << SendCall("send_message", response.response) >>

\* Client.send_response: the platform calls it makes for one response.
send_response(response) ==
    IF response.message_type = "MESSAGE"
    THEN << SendCall("send_message", response.response) >>
    ELSE IF response.message_type = "EMOJI"
    THEN << SendCall("add_reaction", response.response) >>
    ELSE << >>

\* isinstance(responses, IterableClass)
IsIterable(responses) == responses.kind = "Iterable"

\* Mutation of NextItem: the for loop runs over the items backwards.
NextItem_Reversed(responses, k) ==
    responses[Len(responses) - k]

\* The item the for loop takes after k items.
NextItem(responses, k) ==
    responses[k + 1]

\* send_responses touches nothing of the other methods' state.
SROnly == UNCHANGED <<ceVars, plVars, suVars, saVars, quVars, pgVars, rgVars, awVars>>

\* Where a call of send_responses returns to: the for loop of its caller,
\* or the plugin.
SRAfterReturn(stack) == IF stack = << >> THEN "done" ELSE "loop"

\* A plugin's responses are handed to send_responses.
SRStart ==
    /\ sr_pc = "idle"
    /\ \E responses \in AllResponses :
         /\ sr_responses' = responses
         /\ sr_arg' = responses
    /\ sr_stack' = << >>
    /\ pl_sent' = << >>
    /\ sr_pc' = "enter"
    /\ SROnly

\* if responses is None: logging.debug(...); return
SRNone ==
    /\ sr_pc = "enter"
    /\ sr_arg.kind = "None"
    /\ sr_pc' = SRAfterReturn(sr_stack)
    /\ UNCHANGED <<sr_responses, sr_arg, sr_stack, pl_sent>>
    /\ SROnly

\* if not isinstance(responses, IterableClass):
\*     self.send_response(responses); return
SRSendResponse ==
    /\ sr_pc = "enter"
    /\ sr_arg.kind # "None"
    /\ ~IsIterable(sr_arg)
    /\ pl_sent' = pl_sent \o send_response(sr_arg)
    /\ sr_pc' = SRAfterReturn(sr_stack)
    /\ UNCHANGED <<sr_responses, sr_arg, sr_stack>>
    /\ SROnly

\* for response in responses: the loop is entered.
SRIterate ==
    /\ sr_pc = "enter"
    /\ sr_arg.kind # "None"
    /\ IsIterable(sr_arg)
    /\ sr_stack' = Append(sr_stack, [responses |-> sr_arg.items, k |-> 0])
    /\ sr_pc' = "loop"
    /\ UNCHANGED <<sr_responses, sr_arg, pl_sent>>
    /\ SROnly

\* The head of the for loop: self.send_responses(response) for the next
\* item, or the end of the loop and of the call.
SRLoop ==
    /\ sr_pc = "loop"
    /\ LET top == sr_stack[Len(sr_stack)]
           rest == SubSeq(sr_stack, 1, Len(sr_stack) - 1)
       IN  IF top.k < Len(top.responses)
           THEN /\ sr_arg' = NextItem(top.responses, top.k)
                /\ sr_stack' = Append(rest, [top EXCEPT !.k = top.k + 1])
                /\ sr_pc' = "enter"
           ELSE /\ sr_stack' = rest
                /\ sr_pc' = SRAfterReturn(rest)
                /\ UNCHANGED sr_arg
    /\ UNCHANGED <<sr_responses, pl_sent>>
    /\ SROnly

\* send_responses has returned to the plugin, which goes on.
SRReturn ==
    /\ sr_pc = "done"
    /\ sr_pc' = "idle"
    /\ sr_responses' = NoneValue
    /\ sr_arg' = NoneValue
    /\ sr_stack' = << >>
    /\ pl_sent' = << >>
    /\ SROnly

SRInit ==
    /\ sr_pc = "idle"
    /\ sr_responses = NoneValue
    /\ sr_arg = NoneValue
    /\ sr_stack = << >>
    /\ pl_sent = << >>

SRNext ==
    \/ SRStart
    \/ SRNone
    \/ SRSendResponse
    \/ SRIterate
    \/ SRLoop
    \/ SRReturn

(***************************************************************************)
(* Python values whose type the code looks at.                             *)
(***************************************************************************)
PyInt(n) == [type |-> "int", val |-> n]

PyBool(b) == [type |-> "bool", val |-> b]

\* A str, as the sequence of its characters' codes.
PyStr(chars) == [type |-> "str", val |-> chars]

\* isinstance(x, int): bool is a subclass of int.
IsInstanceInt(x) == x.type \in {"int", "bool"}

\* isinstance(x, bool)
IsInstanceBool(x) == x.type = "bool"

\* The number an int (or a bool, as an int) is.
IntValue(x) == IF x.type = "bool" THEN (IF x.val THEN 1 ELSE 0) ELSE x.val

\* A dict with no key.
EmptyDict == << >>

(***************************************************************************)
(* Client.user_is_privileged                                               *)
(***************************************************************************)
\* The role levels of the platform: owner, administrator, moderator, member,
\* guest.
ROLE_MODERATOR == 300

RoleLevels == {100, 200, ROLE_MODERATOR, 400, 600}

\* The values a profile's 'role' can have: a level, or something that is
\* no int ("200"), or a bool.
RoleValues ==
    { PyInt(n) : n \in RoleLevels } \cup { PyStr(<<50, 48, 48>>), PyBool(TRUE) }

\* The values a profile's 'is_admin' can have: a bool, or something else.
AdminValues ==
    { PyBool(TRUE), PyBool(FALSE), PyInt(1), PyStr(<<49>>) }

\* The profiles get_user_by_id can deliver: 'role' and 'is_admin' are each
\* present or absent.
UserProfiles(user_id) ==
    { ("user_id" :> PyInt(user_id)) @@ role @@ is_admin :
        role \in { EmptyDict } \cup { ("role" :> v) : v \in RoleValues },
        is_admin \in { EmptyDict } \cup { ("is_admin" :> v) : v \in AdminValues } }

\* The responses get_user_by_id(user_id) can give.
GetUserByIdResults(user_id) ==
    { ("result" :> "success") @@ ("user" :> u) : u \in UserProfiles(user_id) }
    \cup { ("result" :> "error") @@ ("code" :> "BAD_REQUEST") @@ ("msg" :> "No such user"),
           ("result" :> "connection-error") @@ ("msg" :> "unreachable") }

UserIds == {1, 2}

\* Mutation of user_is_privileged: the test of the role's type is missing
\* and every role that is no member's or guest's counts.
user_is_privileged_RoleBelowMember(result) ==
    IF result["result"] # "success" THEN FALSE
    ELSE LET user == result["user"] IN
         IF HasField(user, "role") /\ user["role"].type = "int" /\ user["role"].val < 400
         THEN TRUE
         ELSE IF HasField(user, "is_admin") /\ IsInstanceBool(user["is_admin"])
         THEN user["is_admin"].val
         ELSE FALSE

\* Client.user_is_privileged, given the result of its get_user_by_id call.
user_is_privileged(result) ==
    IF result["result"] # "success" THEN FALSE
    ELSE LET user == result["user"] IN
         IF /\ HasField(user, "role")
            /\ IsInstanceInt(user["role"])
            /\ IntValue(user["role"]) \in {100, 200}
         THEN TRUE
         ELSE IF HasField(user, "is_admin") /\ IsInstanceBool(user["is_admin"])
         THEN user["is_admin"].val
         ELSE FALSE

\* The lookup methods touch nothing of the other methods' state.
QUOnly == UNCHANGED <<ceVars, plVars, suVars, saVars, srVars, pgVars, rgVars, awVars>>

\* The client has one caller: no lookup method is running.
QUIdle ==
    /\ up_pc = "idle"
    /\ gp_pc = "idle"
    /\ px_pc = "idle"
    /\ gu_pc = "idle"

UPOnly == QUOnly /\ UNCHANGED <<gpVars, pxVars, guVars>>

\* A plugin calls user_is_privileged.
UPStart ==
    /\ QUIdle
    /\ \E user_id \in UserIds : up_user_id' = user_id
    /\ up_pc' = "fetch"
    /\ UNCHANGED <<up_result, up_ret>>
    /\ UPOnly

\* result = self.get_user_by_id(user_id) and the rest of the method.
UPGetUser ==
    /\ up_pc = "fetch"
    /\ \E result \in GetUserByIdResults(up_user_id) :
         /\ up_result' = result
         /\ up_ret' = user_is_privileged(result)
    /\ up_pc' = "done"
    /\ UNCHANGED up_user_id
    /\ UPOnly

\* self.get_user_by_id(user_id) raises (the transport could not complete the
\* call): the exception leaves user_is_privileged.
UPGetUserRaises ==
    /\ up_pc = "fetch"
    /\ up_pc' = "raised"
    /\ UNCHANGED <<up_user_id, up_result, up_ret>>
    /\ UPOnly

\* user_is_privileged has returned (or raised) to the plugin, which goes on.
UPReturn ==
    /\ up_pc \in {"done", "raised"}
    /\ up_pc' = "idle"
    /\ up_user_id' = 0
    /\ up_result' = NoResult
    /\ up_ret' = FALSE
    /\ UPOnly

UPInit ==
    /\ up_pc = "idle"
    /\ up_user_id = 0
    /\ up_result = NoResult
    /\ up_ret = FALSE

(***************************************************************************)
(* Client.get_public_stream_names                                          *)
(***************************************************************************)
\* The public channels the platform can have.
PublicStreamLists ==
    { << >>, << Stream(Name_gen, FALSE) >>,
      << Stream(Name_gen, FALSE), Stream(Name_team, FALSE) >> }

\* The rows the table PublicStreams can hold: (StreamName, Subscribed).
\* __init__ creates the table; its rows are written by the autosubscriber.
PublicStreamsTables ==
    { << >>, << <<Name_gen, 1>> >>, << <<Name_gen, 1>>, <<Name_team, 0>> >>,
      << <<Name_team, 0>> >> }

\* select StreamName from PublicStreams
SelectStreamName(table) == [k \in DOMAIN table |-> << table[k][1] >>]

\* The responses get_streams(include_public = True, include_subscribed =
\* False) can give.
GetPublicStreamsResults(live) ==
    { ("result" :> "success") @@ ("streams" :> live),
      ("result" :> "error") @@ ("code" :> "BAD_REQUEST") @@ ("msg" :> "not allowed"),
      ("result" :> "connection-error") @@ ("msg" :> "unreachable") }

\* A call made by get_public_stream_names, and how it ended: "success",
\* "error" (a result that is no success) or "raised".
SelectCall(outcome) ==
    [op |-> "select", include_public |-> FALSE, include_subscribed |-> FALSE,
     outcome |-> outcome]

GetStreamsCall(include_public, include_subscribed, outcome) ==
    [op |-> "get_streams", include_public |-> include_public,
     include_subscribed |-> include_subscribed, outcome |-> outcome]

OutcomeOf(result) == IF result["result"] = "success" THEN "success" ELSE "error"

\* list(map(lambda t: t[0], rows))
NamesOfRows(rows) == [k \in DOMAIN rows |-> rows[k][1]]

\* without_db(), given the result of its get_streams call.
without_db(result) ==
    IF result["result"] # "success" THEN << >>
    ELSE [k \in DOMAIN result["streams"] |-> result["streams"][k].name]

\* Mutation of GPAfterEntry: use_db is not looked at.
GPAfterEntry_AlwaysDb(use_db) ==
    "db"

\* if not use_db: return without_db()
GPAfterEntry(use_db) == IF ~use_db THEN "live" ELSE "db"

\* except Exception as e: logging.exception(e); return without_db()
GPOnDbException ==
    "live"

GPOnly == QUOnly /\ UNCHANGED <<upVars, pxVars, guVars>>

\* A plugin calls get_public_stream_names.  Since the client was made, the
\* autosubscriber may have written the table and the platform's channels
\* may have changed.
GPStart ==
    /\ QUIdle
    /\ \E use_db \in BOOLEAN :
         /\ gp_use_db' = use_db
         /\ gp_pc' = GPAfterEntry(use_db)
    /\ \E table \in PublicStreamsTables : gp_table' = table
    /\ \E live \in PublicStreamLists : gp_live' = live
    /\ gp_calls' = << >>
    /\ gp_ret' = << >>
    /\ GPOnly

\* return list(map(..., self._db.execute('select StreamName from
\* PublicStreams'))): the lookup succeeds.
GPSelect ==
    /\ gp_pc = "db"
    /\ gp_calls' = Append(gp_calls, SelectCall("success"))
    /\ gp_ret' = NamesOfRows(SelectStreamName(gp_table))
    /\ gp_pc' = "done"
    /\ UNCHANGED <<gp_use_db, gp_table, gp_live>>
    /\ GPOnly

\* self._db.execute(...) raises: the exception is logged and without_db()
\* is called.
GPSelectRaises ==
    /\ gp_pc = "db"
    /\ gp_calls' = Append(gp_calls, SelectCall("raised"))
    /\ gp_pc' = GPOnDbException
    /\ UNCHANGED <<gp_use_db, gp_table, gp_live, gp_ret>>
    /\ GPOnly

\* return without_db(): the listing call returns.
GPLive ==
    /\ gp_pc = "live"
    /\ \E result \in GetPublicStreamsResults(gp_live) :
         /\ gp_ret' = without_db(result)
         /\ gp_calls' = Append(gp_calls, GetStreamsCall(TRUE, FALSE, OutcomeOf(result)))
    /\ gp_pc' = "done"
    /\ UNCHANGED <<gp_use_db, gp_table, gp_live>>
    /\ GPOnly

\* self.get_streams(...) raises (the transport could not complete the
\* call): nothing catches the exception, it leaves get_public_stream_names.
GPLiveRaises ==
    /\ gp_pc = "live"
    /\ gp_calls' = Append(gp_calls, GetStreamsCall(TRUE, FALSE, "raised"))
    /\ gp_pc' = "raised"
    /\ UNCHANGED <<gp_use_db, gp_table, gp_live, gp_ret>>
    /\ GPOnly

\* get_public_stream_names has returned (or raised) to the plugin, which
\* goes on.
GPReturn ==
    /\ gp_pc \in {"done", "raised"}
    /\ gp_pc' = "idle"
    /\ gp_use_db' = FALSE
    /\ gp_calls' = << >>
    /\ gp_ret' = << >>
    /\ UNCHANGED <<gp_table, gp_live>>
    /\ GPOnly

\* __init__: self._db.checkout_table('PublicStreams', ...): the table is
\* there, with no row when it was just created.
GPInit ==
    /\ gp_pc = "idle"
    /\ gp_use_db = FALSE
    /\ gp_table = << >>
    /\ gp_live = << >>
    /\ gp_calls = << >>
    /\ gp_ret = << >>

(***************************************************************************)
(* Client.private_stream_exists, called by a plugin                        *)
(***************************************************************************)
\* The active channels the platform can have: "gen" and "team" absent,
\* public or private, and lists in which two channels have the name "team"
\* up to the case of its letters.
ActiveStreamLists ==
    PlatformStreams({FALSE, TRUE}, {FALSE, TRUE})
    \cup { << Stream(Name_Team, FALSE), Stream(Name_team, TRUE) >>,
           << Stream(Name_gen, FALSE), Stream(Name_team, TRUE), Stream(Name_Team, FALSE) >> }

\* The names private_stream_exists is asked about.
AskedStreamNames == { Name_team, Name_Team, Name_GEN }

\* The responses get_streams(include_all_active = True) can give when the
\* platform's channels are streams.
GetActiveStreamsResults(streams) ==
    { ("result" :> "success") @@ ("streams" :> streams),
      ("result" :> "error") @@ ("code" :> "BAD_REQUEST") @@ ("msg" :> "not allowed"),
      ("result" :> "connection-error") @@ ("msg" :> "unreachable") }

\* self.get_streams(include_all_active = True), as the platform saw it.
GetAllActiveStreamsCall == [op |-> "get_streams", include_all_active |-> TRUE]

PXOnly == QUOnly /\ UNCHANGED <<upVars, gpVars, guVars>>

\* A plugin calls private_stream_exists.
PXStart ==
    /\ QUIdle
    /\ \E stream_name \in AskedStreamNames : px_stream_name' = stream_name
    /\ \E streams \in ActiveStreamLists : px_streams' = streams
    /\ px_calls' = << >>
    /\ px_result' = NoResult
    /\ px_ret' = FALSE
    /\ px_pc' = "list"
    /\ PXOnly

\* result = self.get_streams(include_all_active = True) and the rest of the
\* method.
PXGetStreams ==
    /\ px_pc = "list"
    /\ \E result \in GetActiveStreamsResults(px_streams) :
         /\ px_result' = result
         /\ px_ret' = private_stream_exists(result, px_stream_name)
    /\ px_calls' = Append(px_calls, GetAllActiveStreamsCall)
    /\ px_pc' = "done"
    /\ UNCHANGED <<px_stream_name, px_streams>>
    /\ PXOnly

\* self.get_streams(...) raises (the transport could not complete the
\* call): the exception leaves private_stream_exists.
PXGetStreamsRaises ==
    /\ px_pc = "list"
    /\ px_calls' = Append(px_calls, GetAllActiveStreamsCall)
    /\ px_pc' = "raised"
    /\ UNCHANGED <<px_stream_name, px_streams, px_result, px_ret>>
    /\ PXOnly

\* private_stream_exists has returned (or raised) to the plugin, which goes
\* on.
PXReturn ==
    /\ px_pc \in {"done", "raised"}
    /\ px_pc' = "idle"
    /\ px_stream_name' = << >>
    /\ px_streams' = << >>
    /\ px_calls' = << >>
    /\ px_result' = NoResult
    /\ px_ret' = FALSE
    /\ PXOnly

PXInit ==
    /\ px_pc = "idle"
    /\ px_stream_name = << >>
    /\ px_streams = << >>
    /\ px_calls = << >>
    /\ px_result = NoResult
    /\ px_ret = FALSE

(***************************************************************************)
(* Client.get_user_ids_from_attribute and Client.get_user_ids_from_emails  *)
(***************************************************************************)
RECURSIVE Digits(_)
\* The decimal digits of n >= 0, as character codes.
Digits(n) ==
    IF n < 10 THEN << 48 + n >> ELSE Append(Digits(n \div 10), 48 + (n % 10))

\* str(x)
str(x) ==
    CASE x.type = "str" -> x.val
      [] x.type = "bool" -> IF x.val THEN <<84, 114, 117, 101>>          \* "True"
                            ELSE <<70, 97, 108, 115, 101>>               \* "False"
      [] x.type = "int" -> Digits(x.val)

\* s.lower(), for a str of ASCII characters.
lower(chars) ==
    [k \in DOMAIN chars |-> IF chars[k] \in 65..90 THEN chars[k] + 32 ELSE chars[k]]

\* x == y in Python: strs by their characters, ints and bools by their
\* number, and a str is equal to no number.
PyEq(x, y) ==
    IF x.type = "str" \/ y.type = "str"
    THEN x.type = y.type /\ x.val = y.val
    ELSE IntValue(x) = IntValue(y)

Email_a == <<97, 64, 120, 46, 99, 111, 109>>       \* "a@x.com"
Email_A == <<65, 64, 88, 46, 99, 111, 109>>        \* "A@X.com"
Email_b == <<98, 64, 120, 46, 99, 111, 109>>       \* "b@x.com"
FullName_Al == <<65, 108>>                         \* "Al"
FullName_al == <<97, 108>>                         \* "al"

\* The users the platform can list.
ListedUsers ==
    { ("user_id" :> PyInt(1)) @@ ("delivery_email" :> PyStr(Email_a))
         @@ ("full_name" :> PyStr(FullName_Al)),
      ("user_id" :> PyInt(2)) @@ ("delivery_email" :> PyStr(Email_A))
         @@ ("full_name" :> PyStr(FullName_al)),
      ("user_id" :> PyInt(3)) @@ ("full_name" :> PyStr(FullName_Al))
         @@ ("is_bot" :> PyBool(TRUE)),
      ("user_id" :> PyInt(12)) @@ ("delivery_email" :> PyStr(Email_b))
         @@ ("full_name" :> PyStr(<<49>>)) }

\* The listings: every sequence of at most MaxMembers of these users.
MemberLists ==
    UNION { [1..n -> ListedUsers] : n \in 0..MaxMembers }

\* The responses get_users() can give.
GetUsersResults(members) ==
    { ("result" :> "success") @@ ("members" :> members),
      ("result" :> "error") @@ ("code" :> "BAD_REQUEST") @@ ("msg" :> "not allowed"),
      ("result" :> "connection-error") @@ ("msg" :> "unreachable") }

Attributes == { "delivery_email", "full_name", "user_id", "is_bot" }

\* The values asked for.
ValueLists ==
    { << >>,
      << PyStr(Email_A) >>,
      << PyStr(Email_b), PyStr(Email_a) >>,
      << PyStr(FullName_al), PyInt(1) >>,
      << PyStr(<<49, 50>>), PyBool(TRUE) >>,
      << PyStr(<<116, 114, 117, 101>>) >> }                 \* "true"

EmailLists ==
    { << >>, << PyStr(Email_A) >>, << PyStr(Email_b), PyStr(Email_a) >> }

\* A list that is returned.
PyList(items) == [kind |-> "list", items |-> items]

\* Mutation of ValueSet: the values are converted to strings but not
\* lower-cased.
ValueSet_NotLowered(values, case_sensitive) ==
    IF ~case_sensitive
    THEN { PyStr(str(values[k])) : k \in DOMAIN values }
    ELSE { values[k] : k \in DOMAIN values }

\* if not case_sensitive: values = map(lambda x: str(x).lower(), values)
\* value_set = set(values)
ValueSet(values, case_sensitive) ==
    IF ~case_sensitive
    THEN { PyStr(lower(str(values[k]))) : k \in DOMAIN values }
    ELSE { values[k] : k \in DOMAIN values }

\* x in value_set
InValueSet(x, value_set) == \E v \in value_set : PyEq(x, v)

\* The condition of the list comprehension.
UserSelected(user, attribute, value_set, case_sensitive) ==
    /\ HasField(user, attribute)
    /\ IF case_sensitive
       THEN InValueSet(user[attribute], value_set)
       ELSE InValueSet(PyStr(lower(str(user[attribute]))), value_set)

\* Client.get_user_ids_from_attribute, given the result of its get_users
\* call.
get_user_ids_from_attribute(result, attribute, values, case_sensitive) ==
    IF result["result"] # "success" THEN NoneValue
    ELSE LET value_set == ValueSet(values, case_sensitive)
             selected == SelectSeq(result["members"],
                             LAMBDA user : UserSelected(user, attribute, value_set,
                                                        case_sensitive))
         IN  PyList([k \in DOMAIN selected |-> selected[k]["user_id"]])

GUOnly == QUOnly /\ UNCHANGED <<upVars, gpVars, pxVars>>

\* A plugin calls get_user_ids_from_attribute.
GUStart ==
    /\ QUIdle
    /\ gu_via' = "attribute"
    /\ \E attribute \in Attributes : gu_attribute' = attribute
    /\ \E values \in ValueLists : gu_values' = values
    /\ \E case_sensitive \in BOOLEAN : gu_case_sensitive' = case_sensitive
    /\ \E members \in MemberLists : gu_members' = members
    /\ gu_result' = NoResult
    /\ gu_ret' = NoneValue
    /\ gu_pc' = "list"
    /\ GUOnly

\* A plugin calls get_user_ids_from_emails: return
\* self.get_user_ids_from_attribute('delivery_email', emails,
\* case_sensitive = False)
GUStartFromEmails ==
    /\ QUIdle
    /\ gu_via' = "emails"
    /\ gu_attribute' = "delivery_email"
    /\ \E emails \in EmailLists : gu_values' = emails
    /\ gu_case_sensitive' = FALSE
    /\ \E members \in MemberLists : gu_members' = members
    /\ gu_result' = NoResult
    /\ gu_ret' = NoneValue
    /\ gu_pc' = "list"
    /\ GUOnly

\* result = self.get_users() and the rest of the method.
GUGetUsers ==
    /\ gu_pc = "list"
    /\ \E result \in GetUsersResults(gu_members) :
         /\ gu_result' = result
         /\ gu_ret' = get_user_ids_from_attribute(result, gu_attribute, gu_values,
                                                  gu_case_sensitive)
    /\ gu_pc' = "done"
    /\ UNCHANGED <<gu_via, gu_attribute, gu_values, gu_case_sensitive, gu_members>>
    /\ GUOnly

\* self.get_users() raises (the transport could not complete the call): the
\* exception leaves get_user_ids_from_attribute.
GUGetUsersRaises ==
    /\ gu_pc = "list"
    /\ gu_pc' = "raised"
    /\ UNCHANGED <<gu_via, gu_attribute, gu_values, gu_case_sensitive, gu_members,
                   gu_result, gu_ret>>
    /\ GUOnly

\* The method has returned (or raised) to the plugin, which goes on.
GUReturn ==
    /\ gu_pc \in {"done", "raised"}
    /\ gu_pc' = "idle"
    /\ gu_via' = "attribute"
    /\ gu_attribute' = ""
    /\ gu_values' = << >>
    /\ gu_case_sensitive' = TRUE
    /\ gu_members' = << >>
    /\ gu_result' = NoResult
    /\ gu_ret' = NoneValue
    /\ GUOnly

GUInit ==
    /\ gu_pc = "idle"
    /\ gu_via = "attribute"
    /\ gu_attribute = ""
    /\ gu_values = << >>
    /\ gu_case_sensitive = TRUE
    /\ gu_members = << >>
    /\ gu_result = NoResult
    /\ gu_ret = NoneValue

QUInit == UPInit /\ GPInit /\ PXInit /\ GUInit

QUNext ==
    \/ UPStart
    \/ UPGetUser
    \/ UPGetUserRaises
    \/ UPReturn
    \/ GPStart
    \/ GPSelect
    \/ GPSelectRaises
    \/ GPLive
    \/ GPLiveRaises
    \/ GPReturn
    \/ PXStart
    \/ PXGetStreams
    \/ PXGetStreamsRaises
    \/ PXReturn
    \/ GUStart
    \/ GUStartFromEmails
    \/ GUGetUsers
    \/ GUGetUsersRaises
    \/ GUReturn

(***************************************************************************)
(* lib.CommandParser                                                       *)
(***************************************************************************)
\* Words, as the sequences of their characters' codes.
W_list == <<108, 105, 115, 116>>                 \* "list"
W_set == <<115, 101, 116>>                       \* "set"
W_remove == <<114, 101, 109, 111, 118, 101>>     \* "remove"
W_add == <<97, 100, 100>>                        \* "add"
W_frob == <<102, 114, 111, 98>>                  \* "frob"
W_k1 == <<107, 49>>                              \* "k1"
W_k2 == <<107, 50>>                              \* "k2"
W_v1 == <<118, 49>>                              \* "v1"
W_v2 == <<118, 50>>                              \* "v2"
W_12 == <<49, 50>>                               \* "12"

\* A field of a schema: its name and the type its value is coerced to.
Field(name, type) == [name |-> name, type |-> type]

\* add_subcommand(name, fields): a subcommand schema.
Schema(name, fields) == [name |-> name, fields |-> fields]

\* What parse returns: None, or the subcommand's name and its fields.
ParseNone == [kind |-> "None"]

Parsed(command, args) == [kind |-> "parsed", command |-> command, args |-> args]

\* The local result before parse was called.
NotParsed == [kind |-> "unset"]

IsDigits(word) == word # << >> /\ \A k \in DOMAIN word : word[k] \in 48..57

RECURSIVE ParseInt(_)
\* int(word) for a word of digits.
ParseInt(word) ==
    IF word = << >> THEN 0
    ELSE 10 * ParseInt(SubSeq(word, 1, Len(word) - 1)) + (word[Len(word)] - 48)

\* The coercion of a word to the type of a field; ok is false when the
\* word cannot be coerced.
Coerce(type, word) ==
    IF type = "int"
    THEN IF IsDigits(word) THEN [ok |-> TRUE, val |-> PyInt(ParseInt(word))]
         ELSE [ok |-> FALSE, val |-> PyStr(word)]
    ELSE [ok |-> TRUE, val |-> PyStr(word)]

\* A command has the shape of a schema: the subcommand's name, then one
\* word per field.
SchemaMatches(schema, words) ==
    /\ Len(words) = 1 + Len(schema.fields)
    /\ words[1] = schema.name

\* CommandParser.parse: the first schema, in registration order, that
\* matches; None when none matches or a field cannot be coerced.
parse(schemas, words) ==
    LET matching == { k \in DOMAIN schemas : SchemaMatches(schemas[k], words) }
    IN  IF matching = {} THEN ParseNone
        ELSE LET schema == schemas[CHOOSE k \in matching : \A l \in matching : k <= l]
                 coerced == [j \in DOMAIN schema.fields |->
                               Coerce(schema.fields[j].type, words[j + 1])]
             IN  IF \E j \in DOMAIN coerced : ~coerced[j].ok THEN ParseNone
                 ELSE Parsed(schema.name,
                             [f \in { schema.fields[j].name : j \in DOMAIN schema.fields } |->
                                coerced[CHOOSE j \in DOMAIN schema.fields :
                                          schema.fields[j].name = f].val])

\* Conf.__init__: 'list', 'set' {key, value} and 'remove' {key}.
ConfSchemas ==
    << Schema(W_list, << >>),
       Schema(W_set, << Field("key", "str"), Field("value", "str") >>),
       Schema(W_remove, << Field("key", "str") >>) >>

\* The schemas {"add": {phrase: str, emoji: str}, "list": {}}.
ExampleSchemas ==
    << Schema(W_add, << Field("phrase", "str"), Field("emoji", "str") >>),
       Schema(W_list, << >>) >>

\* Schemas of which two can match the same command, and a field that is
\* an int.
OverlappingSchemas ==
    << Schema(W_add, << Field("phrase", "str"), Field("count", "int") >>),
       Schema(W_add, << Field("phrase", "str"), Field("emoji", "str") >>),
       Schema(W_set, << Field("count", "int") >>),
       Schema(W_list, << >>) >>

\* The commands handed to a parser.
Commands ==
    { << >>, << W_list >>, << W_list, W_k1 >>, << W_frob >>,
      << W_set, W_k1, W_v1 >>, << W_set, W_k1, W_v2 >>, << W_set, W_k2, W_v1 >>,
      << W_set, W_k1 >>, << W_set, W_12 >>,
      << W_remove, W_k1 >>, << W_remove, W_k2 >>, << W_remove >>,
      << W_add, W_k1, W_12 >>, << W_add, W_k1, W_v1 >> }

\* The plugins touch nothing of the client's methods' state.
PGOnly == UNCHANGED <<ceVars, plVars, suVars, saVars, srVars, quVars, rgVars, awVars>>

\* A plugin hands a command to its parser.
PAParse ==
    /\ pa_pc = "idle"
    /\ cf_pc = "idle"
    /\ \E schemas \in { ConfSchemas, ExampleSchemas, OverlappingSchemas },
          text \in Commands :
         /\ pa_schemas' = schemas
         /\ pa_text' = text
         /\ pa_result' = parse(schemas, text)
    /\ pa_pc' = "done"
    /\ UNCHANGED cfVars
    /\ PGOnly

\* The plugin goes on.
PAReturn ==
    /\ pa_pc = "done"
    /\ pa_pc' = "idle"
    /\ pa_schemas' = << >>
    /\ pa_text' = << >>
    /\ pa_result' = NotParsed
    /\ UNCHANGED cfVars
    /\ PGOnly

PAInit ==
    /\ pa_pc = "idle"
    /\ pa_schemas = << >>
    /\ pa_text = << >>
    /\ pa_result = NotParsed

(***************************************************************************)
(* plugins/conf.py: Conf                                                   *)
(***************************************************************************)
\* A row of the table Conf (Key text primary key, Value text not null).
ConfRow(key, value) == [Key |-> key, Value |-> value]

\* A message handed to the plugin.
ConfMessage(sender_id, command) == [sender_id |-> sender_id, command |-> command]

\* The responses get_user_by_id(message['sender_id']) can give: a profile
\* with is_admin true or false, a profile without it, and a failure, which
\* has no 'user'.
ConfProfileResults(sender_id) ==
    { ("result" :> "success")
        @@ ("user" :> (("user_id" :> PyInt(sender_id)) @@ ("is_admin" :> PyBool(b)))) :
        b \in BOOLEAN }
    \cup { ("result" :> "success") @@ ("user" :> ("user_id" :> PyInt(sender_id))),
           ("result" :> "error") @@ ("code" :> "BAD_REQUEST") @@ ("msg" :> "No such user") }

\* The responses of the plugin.
ConfResponse(kind, content) == [kind |-> kind, content |-> content]

NoResponse == ConfResponse("none", {})

\* self.client.get_user_by_id(...)['user']['is_admin']: "KeyError" when a
\* key is missing, else "admin" or "not_admin".
SenderIsAdmin(result) ==
    IF ~HasField(result, "user") THEN "KeyError"
    ELSE IF ~HasField(result["user"], "is_admin") THEN "KeyError"
    ELSE IF result["user"]["is_admin"].val THEN "admin"
    ELSE "not_admin"

\* Mutation of CFAfterParse: a None result is not looked at.
CFAfterParse_NoneNotChecked(result) ==
    "execute"

\* if result is None: return Response.command_not_found(message)
CFAfterParse(result) ==
    IF result = ParseNone THEN "done" ELSE "execute"

\* delete from Conf where Key = ?
ConfRemove(table, key) == { row \in table : row.Key # key }

\* replace into, were it to insert without deleting the row of the key.
ConfReplace_Insert(table, key, value) ==
    table \cup { ConfRow(key, value) }

\* replace into Conf values (?,?)
ConfReplace(table, key, value) ==
    ConfRemove(table, key) \cup { ConfRow(key, value) }

\* A conf message comes in.
CFStart ==
    /\ cf_pc = "idle"
    /\ pa_pc = "idle"
    /\ \E sender_id \in UserIds, command \in Commands :
         cf_message' = ConfMessage(sender_id, command)
    /\ cf_result' = NotParsed
    /\ cf_before' = cf_table
    /\ cf_response' = NoResponse
    /\ cf_profile' = NoResult
    /\ cf_pc' = "admin_check"
    /\ UNCHANGED <<cf_table, paVars>>
    /\ PGOnly

\* if not self.client.get_user_by_id(message['sender_id'])['user']['is_admin']:
\*     return Response.admin_err(message)
CFAdminCheck ==
    /\ cf_pc = "admin_check"
    /\ \E result \in ConfProfileResults(cf_message.sender_id) :
         LET is_admin == SenderIsAdmin(result)
         IN  /\ cf_pc' = CASE is_admin = "KeyError" -> "raised"
                            [] is_admin = "not_admin" -> "done"
                            [] OTHER -> "parse"
             /\ cf_response' = IF is_admin = "not_admin"
                               THEN ConfResponse("admin_err", {})
                               ELSE cf_response
             /\ cf_profile' = result
    /\ UNCHANGED <<cf_message, cf_result, cf_table, cf_before, paVars>>
    /\ PGOnly

\* result = self.command_parser.parse(message['command']) and the test of
\* result.
CFParse ==
    /\ cf_pc = "parse"
    /\ cf_result' = parse(ConfSchemas, cf_message.command)
    /\ cf_pc' = CFAfterParse(parse(ConfSchemas, cf_message.command))
    /\ cf_response' = IF CFAfterParse(parse(ConfSchemas, cf_message.command)) = "done"
                      THEN ConfResponse("command_not_found", {})
                      ELSE cf_response
    /\ UNCHANGED <<cf_message, cf_table, cf_before, cf_profile, paVars>>
    /\ PGOnly

\* command, args = result, and the branch of the command; the statements
\* on the table succeed.
CFExecute ==
    /\ cf_pc = "execute"
    /\ IF cf_result.kind # "parsed"
       THEN \* command, args = result raises TypeError
            /\ cf_pc' = "raised"
            /\ UNCHANGED <<cf_table, cf_response>>
       ELSE /\ cf_pc' = "done"
            /\ CASE cf_result.command = W_list ->
                      /\ cf_response' = ConfResponse("message", cf_table)
                      /\ UNCHANGED cf_table
                 [] cf_result.command = W_remove ->
                      /\ cf_table' = ConfRemove(cf_table, cf_result.args["key"].val)
                      /\ cf_response' = ConfResponse("ok", {})
                 [] cf_result.command = W_set ->
                      /\ cf_table' = ConfReplace(cf_table, cf_result.args["key"].val,
                                                 cf_result.args["value"].val)
                      /\ cf_response' = ConfResponse("ok", {})
                 [] OTHER ->
                      /\ cf_response' = ConfResponse("command_not_found", {})
                      /\ UNCHANGED cf_table
    /\ UNCHANGED <<cf_message, cf_result, cf_before, cf_profile, paVars>>
    /\ PGOnly

\* self._db.execute(...) raises: 'set' catches the exception and answers
\* with it; from 'list' and 'remove' it leaves handle_message.
CFExecuteRaises ==
    /\ cf_pc = "execute"
    /\ cf_result.kind = "parsed"
    /\ cf_result.command \in { W_list, W_remove, W_set }
    /\ IF cf_result.command = W_set
       THEN /\ cf_pc' = "done"
            /\ cf_response' = ConfResponse("failed", {})
       ELSE /\ cf_pc' = "raised"
            /\ UNCHANGED cf_response
    /\ UNCHANGED <<cf_message, cf_result, cf_table, cf_before, cf_profile, paVars>>
    /\ PGOnly

\* handle_message has returned (or raised); the next message can come.
CFReturn ==
    /\ cf_pc \in {"done", "raised"}
    /\ cf_pc' = "idle"
    /\ cf_message' = ConfMessage(0, << >>)
    /\ cf_result' = NotParsed
    /\ cf_before' = cf_table
    /\ cf_response' = NoResponse
    /\ cf_profile' = NoResult
    /\ UNCHANGED <<cf_table, paVars>>
    /\ PGOnly

\* Conf.__init__: self._db.checkout_table('Conf', ...)
CFInit ==
    /\ cf_pc = "idle"
    /\ cf_message = ConfMessage(0, << >>)
    /\ cf_result = NotParsed
    /\ cf_table = {}
    /\ cf_before = {}
    /\ cf_response = NoResponse
    /\ cf_profile = NoResult

PGInit == PAInit /\ CFInit

PGNext ==
    \/ PAParse
    \/ PAReturn
    \/ CFStart
    \/ CFAdminCheck
    \/ CFParse
    \/ CFExecute
    \/ CFExecuteRaises
    \/ CFReturn

PLInit ==
    /\ pl_streams = << >>
    /\ pl_calls = << >>

SUInit ==
    /\ su_pc = "idle"
    /\ su_caller = "user"
    /\ su_user_ids = << >>
    /\ su_stream_name = << >>
    /\ su_description = None
    /\ su_allow_private_streams = FALSE
    /\ su_range = 0
    /\ su_i = 0
    /\ su_user_id_chunk = << >>
    /\ su_chunk_pos = << >>
    /\ su_success = TRUE
    /\ su_ret = FALSE
    /\ su_log = << >>
    /\ su_removed = {}
    /\ su_budget = 0

SAInit ==
    /\ sa_pc = "idle"
    /\ sa_from_stream = << >>
    /\ sa_to_stream = << >>
    /\ sa_description = None
    /\ sa_subs = NoResult
    /\ sa_ret = FALSE

SUNext ==
    \/ SUStart
    \/ SUPrivateCheck
    \/ SUNextChunk
    \/ SUAddSubscriptions
    \/ SUReturn
    \/ SAStart
    \/ SAFromCheck
    \/ SAToCheck
    \/ SAGetSubscribers
    \/ SASubscribeReturns
    \/ SAReturn

(***************************************************************************)
(* client.py: Client.call_on_each_event, Client.register                   *)
(***************************************************************************)
\* Keyword arguments (**kwargs): a mapping from parameter names to values.
NoKwargs == << >>

\* The keyword arguments callers give: parameters of the platform's
\* register-queue call.
KwargsValues ==
    { NoKwargs,
      "all_public_streams" :> TRUE,
      "all_public_streams" :> FALSE,
      ("all_public_streams" :> TRUE) @@ ("client_gravatar" :> FALSE) }

\* The (event_types, narrow) pairs callers give.
QueueArgs ==
    { <<NoneValue, NoneValue>>,
      <<PyList(<<"message">>), PyList(<< <<"stream", "test">> >>)>> }

\* A call of zulip.Client.register: its positional arguments and the
\* keyword arguments it gets.
SuperRegisterCall(event_types, narrow, kwargs) ==
    [event_types |-> event_types, narrow |-> narrow, kwargs |-> kwargs]

\* Client.register, were it to hand on its own keyword arguments.
register_OwnKwargs(event_types, narrow, kwargs, params) ==
    SuperRegisterCall(event_types, narrow, kwargs)

\* Client.register: the call of the parent's register it makes. Its own
\* keyword arguments are not used.
register(event_types, narrow, kwargs, params) ==
    SuperRegisterCall(event_types, narrow, params)

\* An entry of the log for a call of call_on_each_event.
EventLoopEntry(event_types, narrow, kwargs) ==
    [op |-> "call_on_each_event", event_types |-> event_types,
     narrow |-> narrow, kwargs |-> kwargs]

\* An entry of the log for a call of register: what it was given and what
\* it passed to the parent's register.
RegisterEntry(event_types, narrow, kwargs, internal) ==
    [op |-> "register", event_types |-> event_types, narrow |-> narrow,
     kwargs |-> kwargs, internal |-> internal,
     passed |-> register(event_types, narrow, kwargs, register_params)]

RGOnly == UNCHANGED <<ceVars, plVars, suVars, saVars, srVars, quVars, pgVars, awVars>>

\* call_on_each_event(callback, event_types, narrow, **kwargs): stores the
\* keyword arguments and enters the parent's event loop.
RGCallOnEachEvent ==
    /\ rg_pc = "idle"
    /\ Len(rg_log) < MaxCalls
    /\ \E args \in QueueArgs, kwargs \in KwargsValues :
        /\ register_params' = kwargs
        /\ rg_event_types' = args[1]
        /\ rg_narrow' = args[2]
        /\ rg_log' = Append(rg_log, EventLoopEntry(args[1], args[2], kwargs))
    /\ rg_pc' = "loop"
    /\ RGOnly

\* The parent's event loop registers a queue: it calls
\* self.register(event_types, narrow) with the arguments it was given,
\* which are no keyword arguments.
RGLoopRegister ==
    /\ rg_pc = "loop"
    /\ Len(rg_log) < MaxCalls
    /\ rg_log' = Append(rg_log,
                        RegisterEntry(rg_event_types, rg_narrow, NoKwargs, TRUE))
    /\ UNCHANGED <<rg_pc, rg_event_types, rg_narrow, register_params>>
    /\ RGOnly

\* register(event_types, narrow, **kwargs) called by a plugin or by the
\* callback.
RGRegister ==
    /\ Len(rg_log) < MaxCalls
    /\ \E args \in QueueArgs, kwargs \in KwargsValues :
        rg_log' = Append(rg_log, RegisterEntry(args[1], args[2], kwargs, FALSE))
    /\ UNCHANGED <<rg_pc, rg_event_types, rg_narrow, register_params>>
    /\ RGOnly

\* The callback raises: the exception leaves call_on_each_event.
RGLoopEnds ==
    /\ rg_pc = "loop"
    /\ rg_pc' = "idle"
    /\ rg_event_types' = NoneValue
    /\ rg_narrow' = NoneValue
    /\ UNCHANGED <<register_params, rg_log>>
    /\ RGOnly

\* __init__: self.register_params = {}.
RGInit ==
    /\ rg_pc = "idle"
    /\ rg_event_types = NoneValue
    /\ rg_narrow = NoneValue
    /\ register_params = NoKwargs
    /\ rg_log = << >>

RGNext ==
    \/ RGCallOnEachEvent
    \/ RGLoopRegister
    \/ RGRegister
    \/ RGLoopEnds

(***************************************************************************)
(* commands/alert_word.py: Command                                         *)
(***************************************************************************)
\* The words of a command as they are typed.
V_ADD == <<65, 68, 68>>                          \* "ADD"
V_REMOVE == <<82, 69, 77, 79, 86, 69>>           \* "REMOVE"
V_LIST == <<76, 73, 83, 84>>                     \* "LIST"

\* Alert phrases as they are typed.
Phrase_a == <<97>>                               \* "a"
Phrase_A == <<65>>                               \* "A"
Phrase_sp_a == <<32, 97>>                        \* " a"
Phrase_b == <<98>>                               \* "b"

\* Emoji names as they are typed.
Emoji_x == <<120>>                               \* "x"
Emoji_y_sp == <<121, 32>>                        \* "y "

\* A command 'alert_word <verb> <phrase>\n<emoji>'; a part that is not
\* there is empty.
AlertCommand(verb, phrase, emoji) ==
    [verb |-> verb, phrase |-> phrase, emoji |-> emoji]

\* The commands handed to handle_message.
AlertCommands ==
    { AlertCommand(v, p, e) :
        v \in {W_add, V_ADD}, p \in {Phrase_a, Phrase_A, Phrase_sp_a, Phrase_b},
        e \in {Emoji_x, Emoji_y_sp} }
    \cup { AlertCommand(v, p, << >>) :
        v \in {W_remove, V_REMOVE}, p \in {Phrase_a, Phrase_A, Phrase_sp_a, Phrase_b} }
    \cup { AlertCommand(W_list, << >>, << >>), AlertCommand(V_LIST, << >>, << >>),
           AlertCommand(W_add, Phrase_a, << >>), AlertCommand(W_remove, << >>, << >>),
           AlertCommand(W_frob, Phrase_a, << >>) }

\* match.groups() of the first of _pattern_add, _pattern_remove and
\* _pattern_list that matches the command; no groups when none matches.
\* The patterns are compiled with re.I, a group (.+) needs a character.
NoMatch == << >>

AlertMatch(command) ==
    IF lower(command.verb) = W_add /\ command.phrase # << >> /\ command.emoji # << >>
    THEN << command.verb, command.phrase, command.emoji >>
    ELSE IF lower(command.verb) = W_remove /\ command.phrase # << >>
    THEN << command.verb, command.phrase >>
    ELSE IF lower(command.verb) = W_list
    THEN << command.verb >>
    ELSE NoMatch

\* str.strip(): without the leading and trailing spaces.
strip(chars) ==
    LET inked == { k \in DOMAIN chars : chars[k] # 32 } IN
        IF inked = {} THEN << >>
        ELSE LET first == CHOOSE k \in inked : \A j \in inked : k <= j
                 last == CHOOSE k \in inked : \A j \in inked : j <= k
             IN  SubSeq(chars, first, last)

\* A row of the table Alerts (Phrase varchar, Emoji varchar).
AlertRow(phrase, emoji) == [Phrase |-> phrase, Emoji |-> emoji]

\* The collation nocase: the upper case letters A-Z are folded to lower case
\* before the comparison.
nocase(chars) ==
    [k \in DOMAIN chars |-> IF chars[k] \in 65..90 THEN chars[k] + 32 ELSE chars[k]]

\* ... where Phrase = ? collate nocase
PhraseEquals(a, b) == nocase(a) = nocase(b)

\* select a.Emoji from Alerts a where a.Phrase = ? collate nocase
SearchAlerts(table, phrase) ==
    LET rows == SelectSeq(table, LAMBDA row : PhraseEquals(row.Phrase, phrase))
    IN  [k \in DOMAIN rows |-> rows[k].Emoji]

\* update Alerts set Emoji = ? where Phrase = ? collate nocase
UpdateAlerts(table, emoji, phrase) ==
    [k \in DOMAIN table |->
        IF PhraseEquals(table[k].Phrase, phrase)
        THEN AlertRow(table[k].Phrase, emoji)
        ELSE table[k]]

\* insert into Alerts values (?,?)
InsertAlert(table, phrase, emoji) == Append(table, AlertRow(phrase, emoji))

\* delete from Alerts where Phrase = ? collate nocase
RemoveAlerts(table, phrase) ==
    SelectSeq(table, LAMBDA row : ~PhraseEquals(row.Phrase, phrase))

\* The lists of alert words the platform can hold for the bot.
AlertWordLists ==
    { << >>, << Phrase_a >>, << Phrase_A >>, << Phrase_b, Phrase_a >> }

\* The responses of get_alert_words.
GetAlertWordsResults ==
    { ("result" :> "success") @@ ("alert_words" :> words) : words \in AlertWordLists }
    \cup { ("result" :> "error") @@ ("msg" :> "Bad request") }

\* The responses of add_alert_words and remove_alert_words.
ChangeAlertWordsResults ==
    { ("result" :> "success") @@ ("alert_words" :> words) : words \in AlertWordLists }
    \cup { ("result" :> "error") @@ ("msg" :> "Bad request") }

\* A call of the client for the alert words of the bot, and its result.
AlertWordsCall(op, words, result) == [op |-> op, words |-> words, result |-> result]

\* alert_phrase in alert_phrases
PhraseListed(phrase, phrases) == \E k \in DOMAIN phrases : phrases[k] = phrase

\* if client.add_alert_words([alert_phrase])['result'] != 'success':
\* were the result not looked at.
AWAfterChange_NotChecked(result) ==
    "db_write"

\* if client.add_alert_words([alert_phrase])['result'] != 'success':
\*     return lib.Response.error(message)
\* and the like for remove_alert_words.
AWAfterChange(result) ==
    IF result["result"] # "success" THEN "done" ELSE "db_write"

\* The statement the branch 'add' executes, were it always the insert.
AddStatement_AlwaysInsert(result_sql) ==
    "insert"

\* if result_sql: update, else: insert.
AddStatement(result_sql) ==
    IF result_sql # << >> THEN "update" ELSE "insert"

AWOnly == UNCHANGED <<ceVars, plVars, suVars, saVars, srVars, quVars, pgVars, rgVars>>

\* An alert_word message comes in.
AWStart ==
    /\ aw_pc = "idle"
    /\ \E sender_id \in UserIds, command \in AlertCommands :
         aw_message' = ConfMessage(sender_id, command)
    /\ aw_before' = aw_table
    /\ aw_pc' = "admin_check"
    /\ UNCHANGED <<aw_profile, aw_args, aw_alert_phrases, aw_result_sql, aw_calls,
                   aw_table, aw_response>>
    /\ AWOnly

\* if not client.get_user_by_id(message['sender_id'])['user']['is_admin']:
\*     return lib.Response.admin_err(message)
\* and the match of the command against the three patterns.
AWAdminCheck ==
    /\ aw_pc = "admin_check"
    /\ \E result \in ConfProfileResults(aw_message.sender_id) :
         LET is_admin == SenderIsAdmin(result)
             match == AlertMatch(aw_message.command)
         IN  /\ aw_profile' = result
             /\ CASE is_admin = "KeyError" ->
                       /\ aw_pc' = "raised"
                       /\ UNCHANGED <<aw_args, aw_response>>
                  [] is_admin = "not_admin" ->
                       /\ aw_pc' = "done"
                       /\ aw_response' = "admin_err"
                       /\ UNCHANGED aw_args
                  [] OTHER ->
                       /\ aw_args' = match
                       /\ IF match = NoMatch
                          THEN /\ aw_pc' = "done"
                               /\ aw_response' = "command_not_found"
                          ELSE /\ aw_pc' = "get_alert_words"
                               /\ UNCHANGED aw_response
    /\ UNCHANGED <<aw_message, aw_alert_phrases, aw_result_sql, aw_calls, aw_table,
                   aw_before>>
    /\ AWOnly

\* result = client.get_alert_words()
\* if result['result'] != 'success': return lib.Response.error(message)
\* alert_phrases = result['alert_words']
AWGetAlertWords ==
    /\ aw_pc = "get_alert_words"
    /\ \E result \in GetAlertWordsResults :
         /\ aw_calls' = Append(aw_calls, AlertWordsCall("get_alert_words", << >>, result))
         /\ IF result["result"] # "success"
            THEN /\ aw_pc' = "done"
                 /\ aw_response' = "error"
                 /\ UNCHANGED aw_alert_phrases
            ELSE /\ aw_pc' = "db_read"
                 /\ aw_alert_phrases' = result["alert_words"]
                 /\ UNCHANGED aw_response
    /\ UNCHANGED <<aw_message, aw_profile, aw_args, aw_result_sql, aw_table, aw_before>>
    /\ AWOnly

\* The branch 'list', or else the search for the phrase and the branch of
\* the command up to its call of the platform; the select succeeds.
AWDbRead ==
    /\ aw_pc = "db_read"
    /\ IF aw_args[1] = W_list
       THEN /\ aw_pc' = "done"
            /\ aw_response' = "message"
            /\ UNCHANGED aw_result_sql
       ELSE IF Len(aw_args) < 2
       THEN \* args[1] raises IndexError
            /\ aw_pc' = "raised"
            /\ UNCHANGED <<aw_result_sql, aw_response>>
       ELSE LET alert_phrase == strip(aw_args[2])
                result_sql == SearchAlerts(aw_table, alert_phrase)
            IN  /\ aw_result_sql' = result_sql
                /\ CASE aw_args[1] = W_add ->
                          /\ aw_pc' = "add_alert_words"
                          /\ UNCHANGED aw_response
                     [] aw_args[1] = W_remove /\ result_sql = << >> ->
                          /\ aw_pc' = "done"
                          /\ aw_response' = "no"
                     [] aw_args[1] = W_remove /\ result_sql # << >> ->
                          /\ aw_pc' = IF PhraseListed(alert_phrase, aw_alert_phrases)
                                      THEN "remove_alert_words"
                                      ELSE "db_write"
                          /\ UNCHANGED aw_response
                     [] OTHER ->
                          /\ aw_pc' = "done"
                          /\ aw_response' = "ok"
    /\ UNCHANGED <<aw_message, aw_profile, aw_args, aw_alert_phrases, aw_calls,
                   aw_table, aw_before>>
    /\ AWOnly

\* client.add_alert_words([alert_phrase]) and the test of its result.
AWAddAlertWords ==
    /\ aw_pc = "add_alert_words"
    /\ \E result \in ChangeAlertWordsResults :
         /\ aw_calls' = Append(aw_calls,
                AlertWordsCall("add_alert_words", << strip(aw_args[2]) >>, result))
         /\ aw_pc' = AWAfterChange(result)
         /\ aw_response' = IF AWAfterChange(result) = "done" THEN "error" ELSE aw_response
    /\ UNCHANGED <<aw_message, aw_profile, aw_args, aw_alert_phrases, aw_result_sql,
                   aw_table, aw_before>>
    /\ AWOnly

\* client.remove_alert_words([alert_phrase]) and the test of its result.
AWRemoveAlertWords ==
    /\ aw_pc = "remove_alert_words"
    /\ \E result \in ChangeAlertWordsResults :
         /\ aw_calls' = Append(aw_calls,
                AlertWordsCall("remove_alert_words", << strip(aw_args[2]) >>, result))
         /\ aw_pc' = AWAfterChange(result)
         /\ aw_response' = IF AWAfterChange(result) = "done" THEN "error" ELSE aw_response
    /\ UNCHANGED <<aw_message, aw_profile, aw_args, aw_alert_phrases, aw_result_sql,
                   aw_table, aw_before>>
    /\ AWOnly

\* The statement that changes the table, committed, and
\* return lib.Response.ok(message).
AWDbWrite ==
    /\ aw_pc = "db_write"
    /\ LET alert_phrase == strip(aw_args[2]) IN
         IF aw_args[1] = W_add
         THEN LET emoji == strip(aw_args[3]) IN
                aw_table' = IF AddStatement(aw_result_sql) = "update"
                            THEN UpdateAlerts(aw_table, emoji, alert_phrase)
                            ELSE InsertAlert(aw_table, alert_phrase, emoji)
         ELSE aw_table' = RemoveAlerts(aw_table, alert_phrase)
    /\ aw_pc' = "done"
    /\ aw_response' = "ok"
    /\ UNCHANGED <<aw_message, aw_profile, aw_args, aw_alert_phrases, aw_result_sql,
                   aw_calls, aw_before>>
    /\ AWOnly

\* A call of the platform raises (the transport fails), or a statement on
\* the table does: the exception leaves handle_message.
AWRaises ==
    /\ aw_pc \in {"get_alert_words", "db_read", "add_alert_words",
                  "remove_alert_words", "db_write"}
    /\ aw_pc' = "raised"
    /\ UNCHANGED <<aw_message, aw_profile, aw_args, aw_alert_phrases, aw_result_sql,
                   aw_calls, aw_table, aw_before, aw_response>>
    /\ AWOnly

\* handle_message has returned (or raised); the next message can come.
AWReturn ==
    /\ aw_pc \in {"done", "raised"}
    /\ aw_pc' = "idle"
    /\ aw_message' = ConfMessage(0, AlertCommand(<< >>, << >>, << >>))
    /\ aw_profile' = NoResult
    /\ aw_args' = NoMatch
    /\ aw_alert_phrases' = << >>
    /\ aw_result_sql' = << >>
    /\ aw_calls' = << >>
    /\ aw_before' = aw_table
    /\ aw_response' = "none"
    /\ UNCHANGED aw_table
    /\ AWOnly

\* Command.__init__: self._db.checkout_table(table = 'Alerts', ...); the
\* table is new.
AWInit ==
    /\ aw_pc = "idle"
    /\ aw_message = ConfMessage(0, AlertCommand(<< >>, << >>, << >>))
    /\ aw_profile = NoResult
    /\ aw_args = NoMatch
    /\ aw_alert_phrases = << >>
    /\ aw_result_sql = << >>
    /\ aw_calls = << >>
    /\ aw_table = << >>
    /\ aw_before = << >>
    /\ aw_response = "none"

AWNext ==
    \/ AWStart
    \/ AWAdminCheck
    \/ AWGetAlertWords
    \/ AWDbRead
    \/ AWAddAlertWords
    \/ AWRemoveAlertWords
    \/ AWDbWrite
    \/ AWRaises
    \/ AWReturn

Init == CEInit /\ PLInit /\ SUInit /\ SAInit /\ SRInit /\ QUInit /\ PGInit /\ RGInit
        /\ AWInit

SpecSubscribe == Init /\ [][SUNext]_vars

\* subscribe_users runs in the caller's thread: once called it keeps
\* running, and so does subscribe_all_from_stream_to_stream.
SpecSubscribeFair ==
    /\ Init
    /\ [][SUNext]_vars
    /\ WF_vars(SUPrivateCheck \/ SUNextChunk \/ SUAddSubscriptions)
    /\ WF_vars(SAFromCheck \/ SAToCheck \/ SAGetSubscribers \/ SASubscribeReturns)

SpecSend == Init /\ [][SRNext]_vars

SpecLookup == Init /\ [][QUNext]_vars

SpecPlugins == Init /\ [][PGNext]_vars

SpecRegister == Init /\ [][RGNext]_vars

SpecAlerts == Init /\ [][AWNext]_vars


\* call_endpoint runs in the caller's thread: once called it keeps running.
SpecCallEndpoint == Init /\ [][CENext]_vars /\ WF_vars(CECall \/ CECallRaises \/ CESleep)

(***************************************************************************)
(* Properties of Client.call_endpoint                                      *)
(***************************************************************************)
CallCount(tr) == Cardinality({ i \in DOMAIN tr : tr[i].ev = "call" })

RateLimitCount(tr) ==
    Cardinality({ i \in DOMAIN tr :
                    tr[i].ev = "response" /\ tr[i].result \in RateLimitResponses })

IsResponseAt(tr, i) == i \in DOMAIN tr /\ tr[i].ev = "response"

\* The first response other than a rate limit ends the call: it is the last
\* event, it is what call_endpoint returns, and the underlying call was
\* issued once per rate-limit response and once more.
C1_ReturnsFirstOther ==
    /\ \A i \in DOMAIN ce_trace :
         (IsResponseAt(ce_trace, i) /\ ce_trace[i].result \notin RateLimitResponses) =>
            /\ i = Len(ce_trace)
            /\ ce_pc = "done"
            /\ ce_result = ce_trace[i].result
            /\ CallCount(ce_trace) = RateLimitCount(ce_trace) + 1
    /\ ce_pc = "done" =>
         /\ IsResponseAt(ce_trace, Len(ce_trace))
         /\ ce_trace[Len(ce_trace)].result \notin RateLimitResponses

\* C1: for every finite sequence of k >= 0 rate-limit responses followed by
\* one other response, call_endpoint terminates, has issued the underlying
\* call exactly k+1 times, and returns exactly that first other response.
C1_TerminatesWithFirstOther ==
    /\ [] C1_ReturnsFirstOther
    /\ (ce_pc = "call") ~> (ce_pc \in {"done", "raised"})

\* Two rate-limit responses, then an error that is no rate limit: three
\* calls, and the error is returned.
C1_Witness ==
    /\ ce_pc = "done"
    /\ RateLimitCount(ce_trace) = 2
    /\ CallCount(ce_trace) = 3
    /\ HasField(ce_result, "code")
    /\ ce_result["code"] = "BAD_REQUEST"

\* C2: when the first response is not a rate-limit response (a success, an
\* error with any other code, an error with no code field), the underlying
\* call is issued exactly once, no sleep happens, and that response is
\* returned unchanged, without raising.
C2_FirstOtherReturnedAtOnce ==
    (IsResponseAt(ce_trace, 2) /\ ce_trace[2].result \notin RateLimitResponses) =>
        /\ Len(ce_trace) = 2
        /\ ce_trace[1].ev = "call"
        /\ ce_trace[1].args = ce_args
        /\ ce_pc = "done"
        /\ ce_result = ce_trace[2].result

\* An error response with no code field came first and was returned.
C2_Witness ==
    /\ ce_pc = "done"
    /\ Len(ce_trace) = 2
    /\ ce_result["result"] = "error"
    /\ ~HasField(ce_result, "code")

\* The wait a rate-limit response asks for.
WaitOf(r) == IF "retry-after" \in DOMAIN r THEN r["retry-after"] ELSE 1

\* C3: between every rate-limit response and the next issue of the request
\* there is exactly one sleep, of the response's 'retry-after' seconds, or of
\* 1 second when it has no such field; the reissued request has the same
\* url, method, request, longpolling, files and timeout as the first one.
C3_OneSleepThenSameRequest ==
    \A i \in DOMAIN ce_trace :
        LET e == ce_trace[i]
            last == (i = Len(ce_trace))
        IN  /\ (e.ev = "response" /\ e.result \in RateLimitResponses) =>
                 /\ last => ce_pc = "sleep"
                 /\ ~last => /\ ce_trace[i + 1].ev = "sleep"
                             /\ ce_trace[i + 1].secs = WaitOf(e.result)
            /\ e.ev = "sleep" =>
                 /\ i > 1
                 /\ ce_trace[i - 1].ev = "response"
                 /\ ce_trace[i - 1].result \in RateLimitResponses
                 /\ last => ce_pc = "call"
                 /\ ~last => /\ ce_trace[i + 1].ev = "call"
                             /\ ce_trace[i + 1].args = ce_trace[1].args
            /\ (e.ev = "call" /\ i > 1) => ce_trace[i - 1].ev = "sleep"

\* A response without 'retry-after' was followed by a sleep of 1 second, a
\* response with 'retry-after' = 2 by a sleep of 2 seconds, and the request
\* was issued again with every argument given.
C3_Witness ==
    /\ Len(ce_trace) >= 7
    /\ ce_trace[2].ev = "response"
    /\ ~HasField(ce_trace[2].result, "retry-after")
    /\ ce_trace[3].ev = "sleep" /\ ce_trace[3].secs = 1
    /\ ce_trace[5].ev = "response"
    /\ HasField(ce_trace[5].result, "retry-after")
    /\ ce_trace[5].result["retry-after"] = 2
    /\ ce_trace[6].ev = "sleep" /\ ce_trace[6].secs = 2
    /\ ce_trace[7].ev = "call"
    /\ ce_trace[7].args.url = "users/me"

(***************************************************************************)
(* Properties of Client.subscribe_users                                    *)
(***************************************************************************)
Range(f) == { f[k] : k \in DOMAIN f }

\* The channel is private on the platform.
PlatformPrivate(stream_name) ==
    \E k \in DOMAIN pl_streams :
        /\ casefold(pl_streams[k].name) = casefold(stream_name)
        /\ pl_streams[k].invite_only

IsSuccess(result) == result["result"] = "success"

\* An UNAUTHORIZED_PRINCIPAL response that names a principal.
NamesPrincipal(result) ==
    /\ result["result"] # "success"
    /\ "code" \in DOMAIN result
    /\ result["code"] = "UNAUTHORIZED_PRINCIPAL"
    /\ "principal" \in DOMAIN result

\* Any other response that is no success.
IsOtherFailure(result) ==
    ~IsSuccess(result) /\ ~NamesPrincipal(result)

\* C4: when every subscription call succeeds and the target channel is not
\* private, subscribe_users on n identities issues exactly ceil(n/100)
\* add_subscriptions calls, the i-th carrying the identities at positions
\* [100*i, 100*i+100) of the input in input order, and returns true.
C4_ChunksOfHundred ==
    ( /\ su_pc = "done"
      /\ ~PlatformPrivate(su_stream_name)
      /\ \A j \in DOMAIN su_log : IsSuccess(su_log[j].result) ) =>
        LET n == Len(su_user_ids) IN
        /\ Len(su_log) = (n + 99) \div 100
        /\ \A j \in DOMAIN su_log :
             LET lo == 100 * (j - 1)
                 hi == IF 100 * j < n THEN 100 * j ELSE n
             IN  /\ Len(su_log[j].principals) = hi - lo
                 /\ \A k \in 1..(hi - lo) :
                      su_log[j].principals[k] = su_user_ids[lo + k]
        /\ su_ret = TRUE

\* 250 identities were subscribed with three calls, of 100, 100 and 50
\* principals.
C4_Witness ==
    /\ su_pc = "done"
    /\ su_ret = TRUE
    /\ Len(su_user_ids) = 250
    /\ ~su_allow_private_streams
    /\ Len(su_log) = 3
    /\ Len(su_log[1].principals) = 100
    /\ Len(su_log[2].principals) = 100
    /\ Len(su_log[3].principals) = 50

\* The list without its k-th element.
Without(list, k) ==
    [m \in 1..(Len(list) - 1) |-> IF m < k THEN list[m] ELSE list[m + 1]]

\* C5: when a subscription call for a chunk fails with code
\* UNAUTHORIZED_PRINCIPAL and a principal field, the next call is for the
\* same chunk with exactly that identity removed and every other identity
\* kept in order (no next call is made when the chunk does not hold the
\* named identity: list.remove raises); if that retry and every other chunk
\* succeed, the operation returns true.
C5_RetryWithoutPrincipal ==
    /\ \A j \in DOMAIN su_log :
         NamesPrincipal(su_log[j].result) =>
            LET sent == su_log[j].principals
                named == su_log[j].result["principal"]
                next == IF j < Len(su_log) THEN su_log[j + 1].principals
                        ELSE su_user_id_chunk
            IN  IF named \in Range(sent)
                THEN /\ j = Len(su_log) => su_pc = "add"
                     /\ \E k \in DOMAIN sent : sent[k] = named /\ next = Without(sent, k)
                     /\ Cardinality(Range(sent)) = Len(sent) => named \notin Range(next)
                     /\ j < Len(su_log) => /\ su_log[j + 1].i = su_log[j].i
                                            /\ su_log[j + 1].streams = su_log[j].streams
                ELSE j = Len(su_log) /\ su_pc = "raised"
    /\ ( /\ su_pc = "done"
         /\ \A j \in DOMAIN su_log :
              IsSuccess(su_log[j].result) \/ NamesPrincipal(su_log[j].result) )
       => su_ret = TRUE

\* Of 250 identities, identity 150 was refused in the second chunk; the
\* chunk was sent again without it, and the operation returned true.
C5_Witness ==
    /\ su_pc = "done"
    /\ su_ret = TRUE
    /\ Len(su_user_ids) = 250
    /\ Len(su_log) = 4
    /\ NamesPrincipal(su_log[2].result)
    /\ su_log[2].result["principal"] = 150
    /\ Len(su_log[3].principals) = 99
    /\ 150 \notin Range(su_log[3].principals)
    /\ IsSuccess(su_log[3].result)

\* C6: every response that is no success and no UNAUTHORIZED_PRINCIPAL
\* response naming a principal, whatever fields it carries, makes the
\* operation abandon that chunk without a retry, still submit every later
\* chunk, and return false; the operation returns true if and only if no
\* chunk ended with such a failure.
C6_OtherFailureAbandonsChunk ==
    /\ \A j \in DOMAIN su_log :
         IsOtherFailure(su_log[j].result) =>
            /\ ~su_success
            /\ j = Len(su_log) => \/ su_pc \in {"chunk", "done"}
                                   \/ (su_pc = "add" /\ su_i > su_log[j].i)
            /\ j < Len(su_log) => su_log[j + 1].i > su_log[j].i
            /\ su_pc = "done" => (su_range >= Len(su_user_ids) /\ su_ret = FALSE)
    /\ su_pc = "done" =>
         su_ret = (\A j \in DOMAIN su_log : ~IsOtherFailure(su_log[j].result))

\* The positions of user_ids in each terminal state.
SubscribedPos ==
    UNION { Range(su_log[j].positions) : j \in { m \in DOMAIN su_log : IsSuccess(su_log[m].result) } }

RejectedPos == su_removed

AbandonedPos ==
    UNION { Range(su_log[j].positions) : j \in { m \in DOMAIN su_log : IsOtherFailure(su_log[m].result) } }

\* C7: when subscribe_users returns after passing the private-channel
\* check, each identity of the input list (each position of user_ids) is in
\* exactly one terminal state: among the principals of a call that
\* succeeded, named by an UNAUTHORIZED_PRINCIPAL response and removed from
\* its chunk, or in a chunk abandoned after another failure.
C7_OneTerminalStateEach ==
    su_pc = "done" =>
        /\ SubscribedPos \cup RejectedPos \cup AbandonedPos = 1..Len(su_user_ids)
        /\ SubscribedPos \cap RejectedPos = {}
        /\ SubscribedPos \cap AbandonedPos = {}
        /\ RejectedPos \cap AbandonedPos = {}
        /\ \A p \in RejectedPos :
             \E j \in DOMAIN su_log :
                /\ NamesPrincipal(su_log[j].result)
                /\ su_log[j].result["principal"] = su_user_ids[p]
                /\ p \in Range(su_log[j].positions)

\* Of 101 identities some were subscribed, one was refused and removed, and
\* the others were left in an abandoned chunk.
C7_Witness ==
    /\ su_pc = "done"
    /\ Len(su_user_ids) = 101
    /\ SubscribedPos # {}
    /\ RejectedPos # {}
    /\ AbandonedPos # {}

\* The get_streams call of subscribe_users' private-channel check succeeded.
SUListingSucceeded ==
    \E k \in DOMAIN pl_calls :
        /\ pl_calls[k].op = "get_streams"
        /\ pl_calls[k].by = "subscribe_users"
        /\ pl_calls[k].ok

SubscriberListings ==
    { k \in DOMAIN pl_calls : pl_calls[k].op = "get_subscribers" }

\* One of the channels is private on the platform.
SAEitherPrivate ==
    PlatformPrivate(sa_from_stream) \/ PlatformPrivate(sa_to_stream)

\* private_stream_exists has reported one of the channels private: the
\* channel is private on the platform and the listing call succeeded.
SAReportedPrivate ==
    \E k \in DOMAIN pl_calls :
        /\ pl_calls[k].op = "get_streams"
        /\ pl_calls[k].by = "subscribe_all"
        /\ pl_calls[k].ok
        /\ PlatformPrivate(pl_calls[k].stream)

\* False is returned, no subscribers were listed, subscribe_users was not
\* called and no subscription call was made.
SARejected ==
    /\ sa_pc = "done"
    /\ sa_ret = FALSE
    /\ SubscriberListings = {}
    /\ su_pc = "idle"
    /\ su_log = << >>

\* The subscribers of from_stream were listed once; when the listing failed
\* false is returned, and otherwise what subscribe_users returned for
\* exactly that list, to_stream and description.
SADelegated ==
    /\ Cardinality(SubscriberListings) = 1
    /\ \A k \in SubscriberListings : pl_calls[k].stream = sa_from_stream
    /\ IF sa_subs["result"] # "success"
       THEN /\ sa_ret = FALSE
            /\ su_pc = "idle"
            /\ su_log = << >>
       ELSE /\ su_caller = "subscribe_all"
            /\ su_pc \in {"rejected", "done"}
            /\ su_user_ids = sa_subs["subscribers"]
            /\ su_stream_name = sa_to_stream
            /\ su_description = sa_description
            /\ sa_ret = su_ret

RECURSIVE Leaves(_), LeavesOfItems(_)
\* The responses of a nested collection, depth first and left to right.
LeavesOfItems(items) ==
    IF items = << >> THEN << >>
    ELSE Leaves(Head(items)) \o LeavesOfItems(Tail(items))

Leaves(responses) ==
    IF responses.kind = "Iterable" THEN LeavesOfItems(responses.items)
    ELSE IF responses.kind = "Response" THEN << responses >>
    ELSE << >>

\* The message and reaction leaves, in order.
SendableLeaves(responses) ==
    SelectSeq(Leaves(responses), LAMBDA r : r.message_type \in {"MESSAGE", "EMOJI"})

\* The send a message or reaction leaf asks for.
SendOf(r) ==
    [op |-> IF r.message_type = "MESSAGE" THEN "send_message" ELSE "add_reaction",
     request |-> r.response]

\* C10: for every nested ordered collection of responses of any depth,
\* send_responses issues one send per leaf response, in depth-first
\* left-to-right order of the leaves (message leaves via send_message,
\* reaction leaves via add_reaction): at every moment the sends made are
\* the first of the expected ones, and at the end they are all of them.
C10_SendsInLeafOrder ==
    sr_pc # "idle" =>
        LET expected == SendableLeaves(sr_responses) IN
        /\ Len(pl_sent) <= Len(expected)
        /\ \A k \in DOMAIN pl_sent : pl_sent[k] = SendOf(expected[k])
        /\ sr_pc = "done" => Len(pl_sent) = Len(expected)

\* [[m1], [], [r1, m2]] was sent as m1, r1, m2.
C10_Witness ==
    /\ sr_pc = "done"
    /\ sr_responses = ExampleResponses
    /\ pl_sent = << SendCall("send_message", "m1"), SendCall("add_reaction", "r1"),
                    SendCall("send_message", "m2") >>


\* A leaf that asks for nothing: None, or a response whose kind is neither
\* message nor reaction.
IsNoOpLeaf(arg) ==
    \/ arg.kind = "None"
    \/ arg.kind = "Response" /\ arg.message_type \notin {"MESSAGE", "EMOJI"}

\* The number of message and reaction leaves.
SendableCount(responses) ==
    Cardinality({ k \in DOMAIN Leaves(responses) :
                    Leaves(responses)[k].message_type \in {"MESSAGE", "EMOJI"} })

\* C11: in send_responses a leaf whose kind is neither message nor reaction
\* produces no platform call and does not stop or fail the dispatch of the
\* other leaves (the step that handles it leaves the calls made as they
\* are and goes back to the enclosing loop, and at the end one call was made
\* per message and reaction leaf); responses being None, or an empty
\* collection, produces no platform call and no error.
C11_NoOpLeavesAreSkipped ==
    /\ [] ( sr_pc = "done" =>
              /\ Len(pl_sent) = SendableCount(sr_responses)
              /\ (sr_responses = NoneValue \/ sr_responses = Iterable(<< >>)) =>
                     pl_sent = << >> )
    /\ [][ (sr_pc = "enter" /\ IsNoOpLeaf(sr_arg)) =>
              /\ pl_sent' = pl_sent
              /\ sr_stack' = sr_stack
              /\ sr_pc' = IF sr_stack = << >> THEN "done" ELSE "loop" ]_vars

\* [m1, [[[r1], x1], None], m2] was dispatched: x1 and None made no call,
\* and m2, which comes after them, was sent.
C11_Witness ==
    /\ sr_pc = "done"
    /\ sr_responses = DeepResponses
    /\ Len(pl_sent) = 3
    /\ pl_sent[3] = SendCall("send_message", "m2")


(***************************************************************************)
(* Properties of Client.user_is_privileged                                 *)
(***************************************************************************)
UPFetched == up_pc = "done" /\ up_result["result"] = "success"

\* The profile has the integer role n.
UPHasRole(n) ==
    /\ HasField(up_result["user"], "role")
    /\ up_result["user"]["role"] = PyInt(n)

\* The profile has a boolean is_admin flag.
UPHasAdminFlag ==
    /\ HasField(up_result["user"], "is_admin")
    /\ up_result["user"]["is_admin"].type = "bool"

C13_ModeratorIsPrivileged ==
    (UPFetched /\ UPHasRole(ROLE_MODERATOR)) => up_ret = TRUE


(***************************************************************************)
(* Properties of Client.get_public_stream_names                            *)
(***************************************************************************)
StreamNames == { Name_team, Name_Team, Name_gen, Name_GEN }

GPCallsWith(op, outcomes) ==
    { k \in DOMAIN gp_calls : gp_calls[k].op = op /\ gp_calls[k].outcome \in outcomes }

\* The table lookup, or else the listing call, delivered names.
GPNamesDelivered ==
    \/ GPCallsWith("select", {"success"}) # {}
    \/ GPCallsWith("get_streams", {"success"}) # {}

GPReturnsList ==
    /\ gp_ret \in Seq(StreamNames)
    /\ ~GPNamesDelivered => gp_ret = << >>

\* C14: get_public_stream_names never fails its caller: for every
\* combination of cache lookup outcome (success, exception) and live
\* listing outcome (success, API error, failure of the call itself), with
\* use_db true or false, it returns a list, and that list is empty whenever
\* no stage delivered names.
C14_NeverFailsCaller ==
    /\ gp_pc # "raised"
    /\ gp_pc = "done" => GPReturnsList

\* The names the table holds, and those of the platform's public channels.
GPCachedNames == [k \in DOMAIN gp_table |-> gp_table[k][1]]

GPLiveNames == [k \in DOMAIN gp_live |-> gp_live[k].name]

GPNoCacheRead == GPCallsWith("select", {"success", "raised"}) = {}

GPListedLive ==
    \E k \in DOMAIN gp_calls :
        /\ gp_calls[k].op = "get_streams"
        /\ gp_calls[k].include_public
        /\ ~gp_calls[k].include_subscribed

\* C15 as stated: get_public_stream_names(use_db=True) returns the cached
\* names when the cache lookup succeeds with data, and performs a live
\* listing call (public, not restricted to subscribed channels) whenever
\* the cache is absent or stale, including a cache table that exists but
\* was never populated; with use_db=False it never reads the cache.
C15_LiveListingWhenStale ==
    /\ (gp_pc = "done" /\ gp_use_db /\ gp_table # << >>
           /\ GPCallsWith("select", {"success"}) # {}) => gp_ret = GPCachedNames
    /\ (gp_pc \in {"done", "raised"} /\ gp_use_db
           /\ ( \/ GPCallsWith("select", {"raised"}) # {}
                \/ GPCachedNames # GPLiveNames
                \/ gp_table = << >> )) => GPListedLive
    /\ ~gp_use_db => GPNoCacheRead

\* C15, amended: get_public_stream_names(use_db=True) returns the cached
\* names whenever the cache lookup succeeds, with or without data and stale
\* or not, and then performs no listing call; it performs a live listing
\* call (public, not restricted to subscribed channels) whenever the cache
\* lookup raises; with use_db=False it never reads the cache and
\* performs the live listing call.
C15_LiveListingWhenLookupRaises ==
    /\ (gp_pc = "done" /\ gp_use_db /\ GPCallsWith("select", {"success"}) # {}) =>
         /\ gp_ret = GPCachedNames
         /\ gp_calls = << SelectCall("success") >>
    /\ (gp_pc \in {"done", "raised"} /\ gp_use_db
           /\ GPCallsWith("select", {"raised"}) # {}) =>
         /\ Len(gp_calls) = 2
         /\ GPListedLive
    /\ ~gp_use_db => GPNoCacheRead
    /\ (gp_pc \in {"done", "raised"} /\ ~gp_use_db) =>
         /\ Len(gp_calls) = 1
         /\ GPListedLive

\* The table holds two names while the platform has one public channel:
\* the two cached names were returned.
C15_Witness ==
    /\ gp_pc = "done"
    /\ gp_use_db
    /\ Len(gp_table) = 2
    /\ Len(gp_live) = 1
    /\ gp_ret = << Name_gen, Name_team >>


(***************************************************************************)
(* Properties of Client.private_stream_exists                              *)
(***************************************************************************)
LowerCase(c) == IF c \in 65..90 THEN c + 32 ELSE c

\* The names a and b are equal up to the case of their letters.
EqualIgnoringCase(a, b) ==
    /\ Len(a) = Len(b)
    /\ \A k \in 1..Len(a) : LowerCase(a[k]) = LowerCase(b[k])

\* The first listed channel of that name is invite-only.
PXFirstOfNameIsPrivate ==
    \E k \in DOMAIN px_streams :
        /\ EqualIgnoringCase(px_streams[k].name, px_stream_name)
        /\ \A l \in 1..(k - 1) : ~EqualIgnoringCase(px_streams[l].name, px_stream_name)
        /\ px_streams[k].invite_only

\* C16: private_stream_exists(name) returns true exactly when the live
\* listing of all active channels succeeds and the first listed channel
\* whose name equals name case-insensitively is invite-only; it returns
\* false both when no channel has that name and when the listing call
\* reports an error.
C16_TrueIffFirstOfNameIsPrivate ==
    px_pc = "done" =>
        /\ px_calls = << [op |-> "get_streams", include_all_active |-> TRUE] >>
        /\ px_ret = (px_result["result"] = "success" /\ PXFirstOfNameIsPrivate)
        /\ px_result["result"] # "success" => px_ret = FALSE
        /\ (\A k \in DOMAIN px_streams :
               ~EqualIgnoringCase(px_streams[k].name, px_stream_name)) => px_ret = FALSE

\* Asked about "team" when the listing gives a public "Team" before a
\* private "team": false, the first of that name decides.
C16_Witness ==
    /\ px_pc = "done"
    /\ px_stream_name = Name_team
    /\ px_result["result"] = "success"
    /\ px_streams = << Stream(Name_Team, FALSE), Stream(Name_team, TRUE) >>
    /\ px_ret = FALSE


(***************************************************************************)
(* Properties of Client.get_user_ids_from_attribute                        *)
(***************************************************************************)
\* The listed user has the attribute with a value equal to one of values;
\* when case does not matter both sides are converted to strings and
\* lower-cased.
GUMatches(user) ==
    /\ gu_attribute \in DOMAIN user
    /\ \E k \in DOMAIN gu_values :
         IF gu_case_sensitive
         THEN PyEq(user[gu_attribute], gu_values[k])
         ELSE lower(str(user[gu_attribute])) = lower(str(gu_values[k]))

GUMatching == { k \in DOMAIN gu_members : GUMatches(gu_members[k]) }

\* The j-th matching position of the listing.
GUNthMatching(j) ==
    CHOOSE k \in GUMatching : Cardinality({ l \in GUMatching : l <= k }) = j

\* C17: get_user_ids_from_attribute returns None when the user listing
\* fails; otherwise it returns, in listing order, the id of every listed
\* user that has the attribute with a value equal to one of values, where
\* with case_sensitive=false both sides are converted to strings and
\* lower-cased, and no other id.  So get_user_ids_from_emails(['A@X.com'])
\* includes a user whose delivery_email is 'a@x.com'.
C17_IdsOfMatchingUsersInOrder ==
    gu_pc = "done" =>
        /\ gu_result["result"] # "success" => gu_ret = NoneValue
        /\ gu_result["result"] = "success" =>
             /\ gu_ret.kind = "list"
             /\ Len(gu_ret.items) = Cardinality(GUMatching)
             /\ \A j \in DOMAIN gu_ret.items :
                  gu_ret.items[j] = gu_members[GUNthMatching(j)]["user_id"]
             /\ (gu_via = "emails" /\ gu_values = << PyStr(Email_A) >>) =>
                  \A k \in DOMAIN gu_members :
                      ( /\ "delivery_email" \in DOMAIN gu_members[k]
                        /\ gu_members[k]["delivery_email"] = PyStr(Email_a) ) =>
                      \E j \in DOMAIN gu_ret.items :
                          gu_ret.items[j] = gu_members[k]["user_id"]

\* get_user_ids_from_emails(['A@X.com']) with the users 12 ("b@x.com") and
\* 1 ("a@x.com") listed returned [1].
C17_Witness ==
    /\ gu_pc = "done"
    /\ gu_via = "emails"
    /\ gu_values = << PyStr(Email_A) >>
    /\ Len(gu_members) = 2
    /\ gu_members[1]["user_id"] = PyInt(12)
    /\ gu_members[2]["user_id"] = PyInt(1)
    /\ gu_ret = PyList(<< PyInt(1) >>)


(***************************************************************************)
(* Properties of the command parser and of Conf                            *)
(***************************************************************************)
\* The positions of the schemas that have the shape of the command.
PAMatching ==
    { k \in DOMAIN pa_schemas :
        /\ pa_text # << >>
        /\ pa_text[1] = pa_schemas[k].name
        /\ Len(pa_text) - 1 = Len(pa_schemas[k].fields) }

\* The word cannot be coerced to the type.
PACannotCoerce(type, word) ==
    type = "int" /\ (word = << >> \/ \E k \in DOMAIN word : word[k] \notin 48..57)

\* The parser returned the name and the fields of the schema at position k.
PAReturnedSchema(k) ==
    /\ pa_result.kind = "parsed"
    /\ pa_result.command = pa_schemas[k].name
    /\ DOMAIN pa_result.args = { pa_schemas[k].fields[j].name : j \in DOMAIN pa_schemas[k].fields }
    /\ \A j \in DOMAIN pa_schemas[k].fields :
         str(pa_result.args[pa_schemas[k].fields[j].name]) = pa_text[j + 1]

\* C18: parse(text) returns the name and fields of the first registered
\* subcommand schema, in registration order, that matches text, and returns
\* none (without raising) when no schema matches or a field cannot be
\* coerced; for the Conf plugin, which registers 'list', 'set' {key, value}
\* and 'remove' {key} in that order, a none result makes handle_message
\* answer command-not-found and leaves the Conf table unchanged.
C18_FirstMatchingSchemaOrNone ==
    /\ pa_pc = "done" =>
         IF PAMatching = {} THEN pa_result = ParseNone
         ELSE LET k == CHOOSE k \in PAMatching : \A l \in PAMatching : k <= l
              IN  IF \E j \in DOMAIN pa_schemas[k].fields :
                        PACannotCoerce(pa_schemas[k].fields[j].type, pa_text[j + 1])
                  THEN pa_result = ParseNone
                  ELSE PAReturnedSchema(k)
    /\ [ k \in DOMAIN ConfSchemas |-> ConfSchemas[k].name ] = << W_list, W_set, W_remove >>
    /\ (cf_pc \in {"execute", "done", "raised"} /\ cf_result = ParseNone) =>
         /\ cf_pc = "done"
         /\ cf_response = ConfResponse("command_not_found", {})
         /\ cf_table = cf_before

\* An administrator sent 'set k1' while the table held rows: the parser
\* returned none, the answer was command-not-found, the rows are as before.
C18_Witness ==
    /\ cf_pc = "done"
    /\ cf_message.command = << W_set, W_k1 >>
    /\ cf_result = ParseNone
    /\ cf_response.kind = "command_not_found"
    /\ cf_table # {}


(***************************************************************************)
(* Termination of Client.subscribe_users                                   *)
(***************************************************************************)
\* Every response that names a principal names one of the chunk it
\* answers.
SUNamedAreInChunk ==
    \A j \in DOMAIN su_log :
        NamesPrincipal(su_log[j].result) =>
            \E k \in DOMAIN su_log[j].principals :
                su_log[j].principals[k] = su_log[j].result["principal"]

\* The add_subscriptions calls made for the chunk at offset i.
SUCallsFor(i) == { j \in DOMAIN su_log : su_log[j].i = i }

\* The length of the chunk at offset i of a list of n identities.
SUChunkLength(n, i) == IF n - i < chunk_size THEN n - i ELSE chunk_size

\* C19: in subscribe_users, provided every UNAUTHORIZED_PRINCIPAL response
\* names an identity that is currently in the chunk being submitted, the
\* number of add_subscriptions calls made for a chunk of length m is at most
\* m+1 (each retry is made with one identity fewer), so the operation
\* terminates for every sequence of platform responses, after at most
\* n + ceil(n/100) calls for n identities.
C19_TerminatesWithinCallBound ==
    /\ [] ( SUNamedAreInChunk =>
              LET n == Len(su_user_ids) IN
              /\ \A j \in DOMAIN su_log :
                   /\ Cardinality(SUCallsFor(su_log[j].i))
                        <= SUChunkLength(n, su_log[j].i) + 1
                   /\ j > 1 /\ su_log[j].i = su_log[j - 1].i =>
                        Len(su_log[j].principals) = Len(su_log[j - 1].principals) - 1
              /\ Len(su_log) <= n + ((n + 99) \div 100) )
    /\ (su_pc \in {"private_check", "chunk", "add"})
          ~> (su_pc \in {"rejected", "done", "raised"})

\* Of [7, 8, 7] every identity was removed in turn; the fourth call, with
\* no principal left, ended the chunk.
C19_Witness ==
    /\ su_pc = "done"
    /\ su_user_ids = <<7, 8, 7>>
    /\ Len(su_log) = 4
    /\ su_log[4].principals = << >>
    /\ SUNamedAreInChunk


(***************************************************************************)
(* The parameters Client.register passes on                                *)
(***************************************************************************)
\* The calls of call_on_each_event made before the i-th call of the log.
RGEventLoopsBefore(i) ==
    { j \in 1..(i - 1) : rg_log[j].op = "call_on_each_event" }

\* The keyword arguments of the most recent call_on_each_event before the
\* i-th call of the log; none if there was no such call.
RGLatestKwargsBefore(i) ==
    LET S == RGEventLoopsBefore(i) IN
        IF S = {} THEN NoKwargs
        ELSE rg_log[CHOOSE j \in S : \A k \in S : k <= j].kwargs

\* C20: for any sequence of call_on_each_event and register calls on one
\* Client, the extra parameters that register passes to the platform are
\* exactly the keyword arguments of the most recent call_on_each_event
\* (none if it was never called); keyword arguments given to register
\* itself are never passed on.
C20_RegisterPassesLatestEventLoopKwargs ==
    \A i \in DOMAIN rg_log :
        rg_log[i].op = "register" =>
            /\ rg_log[i].passed.kwargs = RGLatestKwargsBefore(i)
            /\ rg_log[i].passed.event_types = rg_log[i].event_types
            /\ rg_log[i].passed.narrow = rg_log[i].narrow
            /\ rg_log[i].kwargs # RGLatestKwargsBefore(i) =>
                   rg_log[i].passed.kwargs # rg_log[i].kwargs

\* register was called with all_public_streams=False before any
\* call_on_each_event and passed no extra parameter; after
\* call_on_each_event(all_public_streams=True, client_gravatar=False) it was
\* called with all_public_streams=False again and passed the event loop's
\* two parameters.
C20_Witness ==
    /\ Len(rg_log) = 3
    /\ rg_log[1].op = "register"
    /\ rg_log[1].kwargs = ("all_public_streams" :> FALSE)
    /\ rg_log[1].passed.kwargs = NoKwargs
    /\ rg_log[2].op = "call_on_each_event"
    /\ rg_log[2].kwargs = ("all_public_streams" :> TRUE) @@ ("client_gravatar" :> FALSE)
    /\ rg_log[3].op = "register"
    /\ ~rg_log[3].internal
    /\ rg_log[3].kwargs = ("all_public_streams" :> FALSE)
    /\ rg_log[3].passed.kwargs = rg_log[2].kwargs


(***************************************************************************)
(* The changes Conf.handle_message makes to the table Conf                 *)
(***************************************************************************)
\* The message in hand was parsed as the subcommand word.
CFCommandIs(word) ==
    /\ cf_result.kind = "parsed"
    /\ cf_result.command = word

\* The rows of a table with the key k.
CFRowsOf(table, k) == { row \in table : row.Key = k }

\* C21: for any sequence of conf messages handled by Conf.handle_message,
\* the Conf table changes only through 'set' and 'remove' commands from
\* senders whose profile has is_admin true: a message from a non-admin
\* sender is answered with the admin error before any parsing and leaves the
\* table unchanged, 'list' leaves it unchanged, and after a successful
\* 'set k v' the table holds exactly one row for k, with value v.
C21_TableChangesOnlyByAdminSetRemove ==
    /\ [][ cf_table' # cf_table =>
             /\ cf_pc = "execute"
             /\ CFCommandIs(W_set) \/ CFCommandIs(W_remove)
             /\ SenderIsAdmin(cf_profile) = "admin" ]_vars
    /\ [] ( (cf_pc \in {"parse", "execute", "done", "raised"}
                /\ SenderIsAdmin(cf_profile) = "not_admin") =>
              /\ cf_pc = "done"
              /\ cf_response = ConfResponse("admin_err", {})
              /\ cf_result = NotParsed
              /\ cf_table = cf_before )
    /\ [] ( (cf_pc \in {"done", "raised"} /\ CFCommandIs(W_list)) =>
              cf_table = cf_before )
    /\ [] ( (cf_pc = "done" /\ CFCommandIs(W_set) /\ cf_response.kind = "ok") =>
              LET k == cf_result.args["key"].val
                  v == cf_result.args["value"].val
              IN  /\ CFRowsOf(cf_table, k) = { ConfRow(k, v) }
                  /\ \A other \in { row.Key : row \in cf_table \cup cf_before } \ {k} :
                       CFRowsOf(cf_table, other) = CFRowsOf(cf_before, other) )

\* An admin's 'set k1 v2' has replaced the row (k1, v1); the row of k2 is
\* as before.
C21_Witness ==
    /\ cf_pc = "done"
    /\ SenderIsAdmin(cf_profile) = "admin"
    /\ cf_message.command = << W_set, W_k1, W_v2 >>
    /\ cf_response.kind = "ok"
    /\ ConfRow(W_k1, W_v1) \in cf_before
    /\ ConfRow(W_k2, W_v1) \in cf_before
    /\ cf_table = { ConfRow(W_k1, W_v2), ConfRow(W_k2, W_v1) }


(***************************************************************************)
(* The rows of the table Alerts                                            *)
(***************************************************************************)
\* The positions of the rows of the phrase, compared without regard to case.
AWRowsOf(table, phrase) ==
    { k \in DOMAIN table : EqualIgnoringCase(table[k].Phrase, phrase) }

\* The command in hand was answered with ok and its first group is the word.
AWDoneOk(word) ==
    /\ aw_pc = "done"
    /\ aw_response = "ok"
    /\ aw_args[1] = word

\* C22: starting from an empty Alerts table, after any sequence of
\* alert_word add / remove / list commands the table holds at most one row
\* per phrase compared case-insensitively: add of a phrase already present
\* updates that row's emoji instead of inserting a second row, and remove
\* deletes every row of the phrase.
C22_OneRowPerPhrase ==
    /\ \A i, j \in DOMAIN aw_table :
         EqualIgnoringCase(aw_table[i].Phrase, aw_table[j].Phrase) => i = j
    /\ AWDoneOk(W_add) =>
         LET phrase == strip(aw_args[2])
             emoji == strip(aw_args[3])
         IN  IF AWRowsOf(aw_before, phrase) # {}
             THEN /\ Len(aw_table) = Len(aw_before)
                  /\ \A k \in DOMAIN aw_table :
                       aw_table[k] = IF k \in AWRowsOf(aw_before, phrase)
                                     THEN AlertRow(aw_before[k].Phrase, emoji)
                                     ELSE aw_before[k]
             ELSE aw_table = Append(aw_before, AlertRow(phrase, emoji))
    /\ AWDoneOk(W_remove) =>
         LET phrase == strip(aw_args[2]) IN
             /\ AWRowsOf(aw_table, phrase) = {}
             /\ Len(aw_table) = Len(aw_before) - Cardinality(AWRowsOf(aw_before, phrase))
             /\ \A k \in DOMAIN aw_table :
                  \E j \in DOMAIN aw_before : aw_table[k] = aw_before[j]

\* The table held the rows (b, x) and (a, x); 'add A' with the emoji y has
\* made the second row (a, y) and added none.
C22_Witness ==
    /\ AWDoneOk(W_add)
    /\ strip(aw_args[2]) = Phrase_A
    /\ aw_before = << AlertRow(Phrase_b, Emoji_x), AlertRow(Phrase_a, Emoji_x) >>
    /\ aw_table = << AlertRow(Phrase_b, Emoji_x), AlertRow(Phrase_a, strip(Emoji_y_sp)) >>


(***************************************************************************)
(* The order of the platform's step and the table's in alert_word          *)
(***************************************************************************)
\* A call of the kind made for the message in hand was answered with success.
AWCallSucceeded(op) ==
    \E k \in DOMAIN aw_calls :
        /\ aw_calls[k].op = op
        /\ aw_calls[k].result["result"] = "success"

\* A call made for the message in hand was answered with a failure.
AWCallFailed ==
    \E k \in DOMAIN aw_calls : aw_calls[k].result["result"] # "success"

\* The calls made for the message in hand that change the alert words.
AWChangingCalls ==
    { k \in DOMAIN aw_calls :
        aw_calls[k].op \in {"add_alert_words", "remove_alert_words"} }

\* C23: in the alert_word command the local Alerts table is changed only
\* after the matching server step succeeded: when get_alert_words fails, or
\* add_alert_words fails during add, or remove_alert_words fails during
\* remove of a phrase the server lists, the command answers with an error
\* and leaves the Alerts table unchanged; remove of a phrase with no row in
\* the table answers 'no' and changes neither the table nor the server's
\* alert words.
C23_TableChangesAfterServerStep ==
    /\ [][ aw_table' # aw_table =>
             /\ AWCallSucceeded("get_alert_words")
             /\ ~AWCallFailed
             /\ aw_args[1] = W_add => AWCallSucceeded("add_alert_words")
             /\ (aw_args[1] = W_remove
                    /\ PhraseListed(strip(aw_args[2]), aw_alert_phrases)) =>
                  AWCallSucceeded("remove_alert_words") ]_vars
    /\ [] ( (aw_pc \in {"done", "raised"} /\ AWCallFailed) =>
              /\ aw_pc = "done"
              /\ aw_response = "error"
              /\ aw_table = aw_before )
    /\ [] ( (aw_pc = "done" /\ AWCallSucceeded("get_alert_words")
                /\ aw_args[1] = W_remove
                /\ AWRowsOf(aw_before, strip(aw_args[2])) = {}) =>
              /\ aw_response = "no"
              /\ aw_table = aw_before
              /\ AWChangingCalls = {} )

\* 'remove a' of a phrase that has a row and that the server lists:
\* remove_alert_words failed, the answer is the error, the row is still
\* there.
C23_Witness ==
    /\ aw_pc = "done"
    /\ aw_args = << W_remove, Phrase_a >>
    /\ Len(aw_calls) = 2
    /\ aw_calls[1].result["result"] = "success"
    /\ aw_calls[2].op = "remove_alert_words"
    /\ aw_calls[2].result["result"] = "error"
    /\ aw_response = "error"
    /\ aw_table = << AlertRow(Phrase_a, Emoji_x) >>

=============================================================================
